---- MODULE Spec2Model ----
(***************************************************************************)
(* Discrete-event model of the IT Del duty simulation.                     *)
(*                                                                         *)
(* Two implementations of the same three-stage pipeline are modelled:      *)
(*   impl = "piket" : class SistemPiketITDel          (src/piket.py)       *)
(*   impl = "cepat" : class SistemPiketITDelSuperCepat                     *)
(*                    (src/.ipynb_checkpoints/piket-checkpoint.py)         *)
(*                                                                         *)
(* Both run on a simpy.Environment.  The environment is modelled as the    *)
(* event heap it is: events are (time, priority, eid, callback) and the    *)
(* smallest one is popped at each step.  Every `yield` of a process is one *)
(* event: a process resumes only when the event it yielded is popped.      *)
(*                                                                         *)
(* Virtual time is counted in units of 0.0025 minute, so that the poll     *)
(* ticks of both implementations (0.1 and 0.005 minute) are integers.      *)
(*                                                                         *)
(* The seeded random generator is a fixed stream: rng.stream is the part   *)
(* of the stream drawn so far, rng.pos the number of draws since the last  *)
(* random.seed().  A draw beyond the known part picks any raw value and    *)
(* records it; a draw inside it replays the recorded value.                *)
(*                                                                         *)
(* Not modelled: the write-only logs statistics['utilization'] and         *)
(* stats['antrian_lengths'] (catat_antrian), the wall-clock label          *)
(* jam_selesai, and the termination event of a finished simpy process      *)
(* (it has no callback here).                                              *)
(***************************************************************************)
EXTENDS Integers, Sequences, FiniteSets, TLC

VARIABLES
    impl,              \* which class is instantiated
    cfg,               \* the Config dataclass
    phase,             \* "new", "error", "ready", "running", "crashed", "returned"
    env,               \* simpy.Environment: [now, queue, eid]
    running,           \* the process executing between two yields, or NoProc
    rng,               \* module random: [stream, pos]
    lauk, angkat, nasi,            \* simpy.Resource objects
    antrian_lauk, antrian_nasi,    \* simpy.Store items
    buffer_angkat,     \* list of [id, waktu_masuk]
    statistics,        \* the statistics dictionary
    ompreng_diproses,  \* completed counter (ompreng_selesai in "cepat")
    batch_count,       \* batch counter (angkat_counter in "cepat")
    plauk, pangkat, pnasi,         \* position and locals of every process; of
                       \* an item process also the time its unit was
                       \* granted (-1 before) and whether a unit was
                       \* free when it arrived; of proses_nasi also the
                       \* time the transport of its item ended (-1 before)
    batches,           \* history: one record per formed batch
    runs,              \* number of model objects used so far
    saved,             \* completion records of the last model that ran right
                       \* after its construction
    held               \* the current model was constructed before the
                       \* previous model's run

vars == <<impl, cfg, phase, env, running, rng, lauk, angkat, nasi,
          antrian_lauk, antrian_nasi, buffer_angkat, statistics,
          ompreng_diproses, batch_count, plauk, pangkat, pnasi,
          batches, runs, saved, held>>

-----------------------------------------------------------------------------
(* Bounds of the model *)

MaxRaw == 1        \* raw random values are 0..MaxRaw
MaxDraws == 120    \* draws recorded per seed; later draws are free
MaxRuns == 2       \* models constructed one after the other
MaxTotal == 3      \* items in the configurations with sampled lauk times
MaxStaff == 2      \* staff per stage in the staffing configurations

-----------------------------------------------------------------------------
(* Program constants *)

TickPiket == 40        \* env.timeout(0.1)
TickCepat == 2         \* env.timeout(0.005)
MinAcceptable == 4     \* "batch_size < 4"
HardCap == 15          \* min(target, len(buffer), 15)
URGENT == 0            \* priority of a process's Initialize event
NORMAL == 1            \* priority of every other event

NoProc == <<"none", 0>>

Min2(a, b) == IF a <= b THEN a ELSE b

TOTAL_OMPRENG(c) == c.NUM_MEJA * c.MAHASISWA_PER_MEJA

Tick == IF impl = "piket" THEN TickPiket ELSE TickCepat

Items(c) == 0 .. (TOTAL_OMPRENG(c) - 1)

\* mutant of Agents: piket.py too starts one pickup process per staff member
Agents_PerStaff(i, c) == 0 .. (c.STAFF_ANGKAT - 1)

\* piket.py starts one proses_angkat; the checkpoint one per STAFF_ANGKAT
Agents(i, c) == IF i = "piket" THEN {0} ELSE 0 .. (c.STAFF_ANGKAT - 1)

-----------------------------------------------------------------------------
(* random *)

\* the raw values a draw over the range a..b can return.  Over a range of
\* one point the raw value is not observable: one representative is taken.
Raws(a, b) == IF a = b THEN {0} ELSE 0 .. MaxRaw

\* r is the raw value of the next draw: the recorded one when the stream
\* is known at this position
RawOK(r) == rng.pos < Len(rng.stream) => r = rng.stream[rng.pos + 1]

RngAfter(r) ==
    IF rng.pos < Len(rng.stream) THEN [rng EXCEPT !.pos = @ + 1]
    ELSE IF rng.pos < MaxDraws
         THEN [stream |-> Append(rng.stream, r), pos |-> rng.pos + 1]
         ELSE rng

\* random.uniform(a, b) = a + (b - a) * random()
Uniform(a, b, r) == a + ((b - a) * r) \div MaxRaw

\* random.randint(a, b), defined for a <= b (ValueError otherwise)
RandInt(a, b, r) == a + ((b - a) * r) \div MaxRaw

generate_lauk_time(r) == Uniform(cfg.LAUK_MIN, cfg.LAUK_MAX, r)
generate_angkat_time(r) == Uniform(cfg.ANGKAT_MIN, cfg.ANGKAT_MAX, r)
generate_nasi_time(r) == Uniform(cfg.NASI_MIN, cfg.NASI_MAX, r)
generate_batch_size(r) == RandInt(cfg.ANGKAT_BATCH_MIN, cfg.ANGKAT_BATCH_MAX, r)

-----------------------------------------------------------------------------
(* simpy.Environment *)

\* mutant of Before: the priority of an event is ignored
Before_NoPriority(e, f) ==
    \/ e.time < f.time
    \/ e.time = f.time /\ e.eid <= f.eid

\* the order of the event heap: (time, priority, eid)
Before(e, f) ==
    \/ e.time < f.time
    \/ e.time = f.time /\ e.prio < f.prio
    \/ e.time = f.time /\ e.prio = f.prio /\ e.eid <= f.eid

\* mutant of MinEvent: the oldest event, whatever its time
MinEvent_ByEid(q) == CHOOSE e \in q : \A f \in q : e.eid <= f.eid

\* the event heappop returns
MinEvent(q) == CHOOSE e \in q : \A f \in q : Before(e, f)

\* mutant of Schedule: the delay is dropped
Schedule_NoDelay(e, prio, delay, cb) ==
    [e EXCEPT !.queue = @ \cup {[time |-> e.now, prio |-> prio,
                                 eid |-> e.eid, cb |-> cb]},
              !.eid = @ + 1]

\* Environment.schedule
Schedule(e, prio, delay, cb) ==
    [e EXCEPT !.queue = @ \cup {[time |-> e.now + delay, prio |-> prio,
                                 eid |-> e.eid, cb |-> cb]},
              !.eid = @ + 1]

\* Environment.step: pop the smallest event and advance the clock to it
Pop(e) ==
    LET ev == MinEvent(e.queue)
    IN  [e EXCEPT !.now = ev.time, !.queue = @ \ {ev}]

\* the next step resumes callback cb
Fires(cb) ==
    /\ phase = "running"
    /\ running = NoProc
    /\ env.queue # {}
    /\ MinEvent(env.queue).cb = cb

-----------------------------------------------------------------------------
(* simpy.Resource, as the pair <<resource, environment>> after the call *)

\* mutant of TriggerPut: the head of the put queue is served without a look
\* at the number of users
TriggerPut_NoLimit(res, e) ==
    IF res.put_queue # <<>>
    THEN <<[res EXCEPT !.users = Append(@, Head(res.put_queue)),
                       !.put_queue = Tail(@)],
           Schedule(e, NORMAL, 0, <<"resume", Head(res.put_queue)[1], Head(res.put_queue)[2]>>)>>
    ELSE <<res, e>>

\* mutant of TriggerPut: the newest request of the put queue is served
TriggerPut_Newest(res, e) ==
    IF res.put_queue # <<>> /\ Len(res.users) < res.capacity
    THEN LET w == res.put_queue[Len(res.put_queue)]
         IN  <<[res EXCEPT !.users = Append(@, w),
                           !.put_queue = SubSeq(@, 1, Len(@) - 1)],
               Schedule(e, NORMAL, 0, <<"resume", w[1], w[2]>>)>>
    ELSE <<res, e>>

\* BaseResource._trigger_put: the head of the put queue gets a free unit
TriggerPut(res, e) ==
    IF res.put_queue # <<>> /\ Len(res.users) < res.capacity
    THEN <<[res EXCEPT !.users = Append(@, Head(res.put_queue)),
                       !.put_queue = Tail(@)],
           Schedule(e, NORMAL, 0, <<"resume", Head(res.put_queue)[1], Head(res.put_queue)[2]>>)>>
    ELSE <<res, e>>

\* Resource.request()
Request(res, e, who) ==
    TriggerPut([res EXCEPT !.put_queue = Append(@, who)], e)

\* Resource.release(): the unit is free at once, the waiters are served
\* when the release event is processed
Release(res, e, who, name) ==
    <<[res EXCEPT !.users = SelectSeq(@, LAMBDA u : u # who)],
      Schedule(e, NORMAL, 0, <<"release", name[1], name[2]>>)>>

NewResource(cap) == [capacity |-> cap, users |-> <<>>, put_queue |-> <<>>]

\* the processes of p whose request became a user from res to res2 have
\* their unit granted at time now
Stamp(p, kind, res, res2, now) ==
    [j \in DOMAIN p |->
        IF /\ \E n \in 1 .. Len(res2.users) : res2.users[n] = <<kind, j>>
           /\ \A n \in 1 .. Len(res.users) : res.users[n] # <<kind, j>>
        THEN [p[j] EXCEPT !.granted = now]
        ELSE p[j]]

-----------------------------------------------------------------------------
(* Configurations *)

\* a small run with fixed service times; the other configurations vary it
Base ==
    [NUM_MEJA |-> 2, MAHASISWA_PER_MEJA |-> 1,
     STAFF_LAUK |-> 1, STAFF_ANGKAT |-> 1, STAFF_NASI |-> 1,
     LAUK_MIN |-> 15, LAUK_MAX |-> 15,
     ANGKAT_MIN |-> 7, ANGKAT_MAX |-> 7,
     ANGKAT_BATCH_MIN |-> 5, ANGKAT_BATCH_MAX |-> 5,
     NASI_MIN |-> 5, NASI_MAX |-> 5]

\* Scenario A: one item, one server per stage, batches of one, sampled times
ScenarioA ==
    [Base EXCEPT !.NUM_MEJA = 1,
                 !.ANGKAT_BATCH_MIN = 1, !.ANGKAT_BATCH_MAX = 1,
                 !.LAUK_MAX = 25, !.ANGKAT_MAX = 9, !.NASI_MAX = 6]

\* Scenario B: ten items, batches of ten, one pickup agent
ScenarioB ==
    [Base EXCEPT !.NUM_MEJA = 5, !.MAHASISWA_PER_MEJA = 2, !.STAFF_LAUK = 2,
                 !.ANGKAT_BATCH_MIN = 10, !.ANGKAT_BATCH_MAX = 10]

\* Scenario C: three items, one pickup agent, for a batch size b
ScenarioC(b) ==
    [Base EXCEPT !.NUM_MEJA = 1, !.MAHASISWA_PER_MEJA = 3,
                 !.ANGKAT_BATCH_MIN = b, !.ANGKAT_BATCH_MAX = b]

\* a batch range that lies below the minimum acceptable size
SmallBatch ==
    [Base EXCEPT !.NUM_MEJA = 4,
                 !.ANGKAT_BATCH_MIN = 3, !.ANGKAT_BATCH_MAX = 3]

\* more items than the hard cap, all buffered at the same instant
Crowd ==
    [Base EXCEPT !.NUM_MEJA = 8, !.MAHASISWA_PER_MEJA = 2, !.STAFF_LAUK = 16,
                 !.ANGKAT_BATCH_MIN = 16, !.ANGKAT_BATCH_MAX = 16]

\* sampled entry-stage times, n servers
SampledLauk(n) ==
    [Base EXCEPT !.NUM_MEJA = MaxTotal, !.STAFF_LAUK = n, !.LAUK_MAX = 25]

\* sampled final-stage times, n servers
SampledNasi(n) ==
    [Base EXCEPT !.STAFF_NASI = n, !.NASI_MAX = 9,
                 !.STAFF_LAUK = 2]

\* sampled batch targets: five items buffered at the same instant
SampledBatch ==
    [Base EXCEPT !.NUM_MEJA = 5, !.STAFF_LAUK = 5,
                 !.LAUK_MIN = 3, !.LAUK_MAX = 3,
                 !.ANGKAT_BATCH_MIN = 4, !.ANGKAT_BATCH_MAX = 5,
                 !.ANGKAT_MIN = 2, !.ANGKAT_MAX = 2,
                 !.STAFF_NASI = 2, !.NASI_MIN = 1, !.NASI_MAX = 1]

\* a batch is delivered at the instant a nasi service ends while earlier
\* items still wait for the one nasi server
Overlap ==
    [Base EXCEPT !.NUM_MEJA = 4, !.MAHASISWA_PER_MEJA = 2, !.STAFF_LAUK = 8,
                 !.ANGKAT_BATCH_MIN = 4, !.ANGKAT_BATCH_MAX = 4,
                 !.ANGKAT_MIN = 10, !.ANGKAT_MAX = 10]

\* two pickup staff and eight items buffered at the same instant: two
\* batches of four
Shared ==
    [Base EXCEPT !.NUM_MEJA = 4, !.MAHASISWA_PER_MEJA = 2, !.STAFF_LAUK = 8,
                 !.STAFF_ANGKAT = 2,
                 !.ANGKAT_BATCH_MIN = 4, !.ANGKAT_BATCH_MAX = 4]

\* ten items one after the other, slow transport and slow final service:
\* every stage is busy at the same time
Pipeline ==
    [Base EXCEPT !.NUM_MEJA = 5, !.MAHASISWA_PER_MEJA = 2,
                 !.ANGKAT_BATCH_MIN = 4, !.ANGKAT_BATCH_MAX = 4,
                 !.ANGKAT_MIN = 20, !.ANGKAT_MAX = 20,
                 !.NASI_MIN = 20, !.NASI_MAX = 20]

\* every service takes no time
Instant ==
    [Base EXCEPT !.LAUK_MIN = 0, !.LAUK_MAX = 0,
                 !.ANGKAT_MIN = 0, !.ANGKAT_MAX = 0,
                 !.NASI_MIN = 0, !.NASI_MAX = 0]

\* n pickup staff (n = 0 included), batches of four
Staffed(n) ==
    [Base EXCEPT !.NUM_MEJA = 4, !.MAHASISWA_PER_MEJA = 2, !.STAFF_LAUK = 2,
                 !.STAFF_ANGKAT = n,
                 !.ANGKAT_BATCH_MIN = 4, !.ANGKAT_BATCH_MAX = 4]

\* configurations section 7 of the specification rejects
Rejected ==
    {[Base EXCEPT !.STAFF_LAUK = 0],
     [Base EXCEPT !.STAFF_NASI = 0],
     [Base EXCEPT !.NUM_MEJA = 0],
     [Base EXCEPT !.LAUK_MIN = 25],
     [Base EXCEPT !.ANGKAT_BATCH_MIN = 6]}

Configs ==
    {Base, ScenarioA, ScenarioB, SmallBatch, Crowd, SampledBatch, Overlap,
     Shared, Pipeline, Instant}
    \cup {ScenarioC(b) : b \in {2, 5}}
    \cup {SampledLauk(n) : n \in {1, MaxStaff}}
    \cup {SampledNasi(n) : n \in 1 .. MaxStaff}
    \cup {Staffed(n) : n \in 0 .. MaxStaff}
    \cup Rejected

Impls == {"piket", "cepat"}

\* the configurations section 7 of the specification accepts
ValidConfig(c) ==
    /\ c.STAFF_LAUK >= 1 /\ c.STAFF_ANGKAT >= 1 /\ c.STAFF_NASI >= 1
    /\ c.LAUK_MIN <= c.LAUK_MAX /\ c.ANGKAT_MIN <= c.ANGKAT_MAX
    /\ c.NASI_MIN <= c.NASI_MAX
    /\ c.ANGKAT_BATCH_MIN <= c.ANGKAT_BATCH_MAX
    /\ TOTAL_OMPRENG(c) >= 1

-----------------------------------------------------------------------------
(* Construction and the driver *)

NoEnv == [now |-> 0, queue |-> {}, eid |-> 0]

NoStatistics ==
    [ompreng_data |-> <<>>,
     waktu_tunggu_lauk |-> <<>>, waktu_tunggu_angkat |-> <<>>,
     waktu_tunggu_nasi |-> <<>>,
     waktu_layanan_lauk |-> <<>>, waktu_layanan_angkat |-> <<>>,
     waktu_layanan_nasi |-> <<>>,
     batch_sizes |-> <<>>]

NoAgent ==
    [pc |-> "new", batch_target |-> 0, batch |-> <<>>, k |-> 0,
     angkat_time |-> 0, waktu_mulai |-> 0]

\* mutant of Seed: the generator is not seeded
Seed_Keep(g) == g

\* random.seed(config.RANDOM_SEED): the stream starts again
Seed(g) == [g EXCEPT !.pos = 0]

\* simpy.Resource(env, capacity) raises ValueError unless capacity > 0
CapacityOK(i, c) ==
    /\ c.STAFF_LAUK > 0
    /\ i = "piket" => c.STAFF_ANGKAT > 0
    /\ c.STAFF_NASI > 0

\* the resources of the pickup stage: one shared Resource in piket.py,
\* one Resource of capacity 1 per staff member in the checkpoint
NewAngkat(i, c) ==
    IF i = "piket" THEN [a \in {0} |-> NewResource(c.STAFF_ANGKAT)]
    ELSE [a \in Agents(i, c) |-> NewResource(1)]

Init ==
    /\ impl \in Impls
    /\ cfg \in Configs
    /\ phase = "new"
    /\ env = NoEnv
    /\ running = NoProc
    /\ rng = [stream |-> <<>>, pos |-> 0]
    /\ lauk = NewResource(0)
    /\ angkat = <<>>
    /\ nasi = NewResource(0)
    /\ antrian_lauk = <<>>
    /\ antrian_nasi = <<>>
    /\ buffer_angkat = <<>>
    /\ statistics = NoStatistics
    /\ ompreng_diproses = 0
    /\ batch_count = 0
    /\ plauk = <<>>
    /\ pangkat = <<>>
    /\ pnasi = <<>>
    /\ batches = <<>>
    /\ runs = 0
    /\ saved = <<>>
    /\ held = FALSE

\* __init__ of a new model object for cfg: the first one, or the next one
\* once the previous model's run has returned
Construct ==
    /\ \/ phase = "new"
       \/ phase = "returned" /\ runs < MaxRuns
    /\ runs' = runs + 1
    /\ saved' = IF phase = "returned" /\ ~held
                THEN statistics.ompreng_data ELSE saved
    /\ held' = FALSE
    /\ env' = NoEnv
    /\ running' = NoProc
    /\ antrian_lauk' = <<>>
    /\ antrian_nasi' = <<>>
    /\ buffer_angkat' = <<>>
    /\ statistics' = NoStatistics
    /\ ompreng_diproses' = 0
    /\ batch_count' = 0
    /\ plauk' = <<>>
    /\ pangkat' = <<>>
    /\ pnasi' = <<>>
    /\ batches' = <<>>
    /\ IF CapacityOK(impl, cfg)
       THEN /\ phase' = "ready"
            /\ lauk' = NewResource(cfg.STAFF_LAUK)
            /\ angkat' = NewAngkat(impl, cfg)
            /\ nasi' = NewResource(cfg.STAFF_NASI)
            /\ rng' = Seed(rng)
       ELSE /\ phase' = "error"
            /\ lauk' = NewResource(0)
            /\ angkat' = <<>>
            /\ nasi' = NewResource(0)
            /\ rng' = rng
    /\ UNCHANGED <<impl, cfg>>

\* the caller runs next a model object it constructed before the previous
\* model's run: the object's fields are as __init__ left them, the
\* module-level generator is as the previous run left it
TakeHeld ==
    /\ phase = "returned"
    /\ ~held
    /\ runs < MaxRuns
    /\ CapacityOK(impl, cfg)
    /\ runs' = runs + 1
    /\ saved' = statistics.ompreng_data
    /\ held' = TRUE
    /\ phase' = "ready"
    /\ env' = NoEnv
    /\ running' = NoProc
    /\ lauk' = NewResource(cfg.STAFF_LAUK)
    /\ angkat' = NewAngkat(impl, cfg)
    /\ nasi' = NewResource(cfg.STAFF_NASI)
    /\ antrian_lauk' = <<>>
    /\ antrian_nasi' = <<>>
    /\ buffer_angkat' = <<>>
    /\ statistics' = NoStatistics
    /\ ompreng_diproses' = 0
    /\ batch_count' = 0
    /\ plauk' = <<>>
    /\ pangkat' = <<>>
    /\ pnasi' = <<>>
    /\ batches' = <<>>
    /\ UNCHANGED <<impl, cfg, rng>>

\* the Initialize events of env.process(...), in the order of the calls:
\* the pickup processes first, then proses_lauk(0), proses_lauk(1), ...
StartEvents(e, i, c) ==
    LET nA == Cardinality(Agents(i, c))
    IN  {[time |-> e.now, prio |-> URGENT, eid |-> e.eid + a,
          cb |-> <<"init", "angkat", a>>] : a \in Agents(i, c)}
        \cup
        {[time |-> e.now, prio |-> URGENT, eid |-> e.eid + nA + j,
          cb |-> <<"init", "lauk", j>>] : j \in Items(c)}

\* run_simulation / jalankan up to env.run()
RunSimulation ==
    /\ phase = "ready"
    /\ phase' = "running"
    /\ ompreng_diproses' = 0
    /\ buffer_angkat' = <<>>
    /\ batch_count' = 0
    /\ env' = [env EXCEPT !.queue = @ \cup StartEvents(env, impl, cfg),
                          !.eid = @ + Cardinality(StartEvents(env, impl, cfg))]
    /\ pangkat' = [a \in Agents(impl, cfg) |-> [NoAgent EXCEPT !.pc = "init"]]
    /\ plauk' = [j \in Items(cfg) |->
                    [pc |-> "init", waktu_datang |-> 0, lauk_time |-> 0,
                     granted |-> -1, free |-> FALSE]]
    /\ pnasi' = [j \in Items(cfg) |->
                    [pc |-> "new", waktu_masuk |-> 0, nasi_time |-> 0,
                     granted |-> -1, free |-> FALSE, ended |-> -1]]
    /\ UNCHANGED <<impl, cfg, running, rng, lauk, angkat, nasi, antrian_lauk,
                   antrian_nasi, statistics, batches, runs, saved, held>>

\* run_simulation / jalankan called once more on a model whose first run
\* has returned: the three counters are reset and new processes are started
\* in the same environment; the statistics, the clock and the generator
\* are as the first run left them
RunAgain ==
    /\ phase = "returned"
    /\ statistics.ompreng_data # <<>>
    /\ Len(statistics.ompreng_data) <= TOTAL_OMPRENG(cfg)
    /\ phase' = "running"
    /\ ompreng_diproses' = 0
    /\ buffer_angkat' = <<>>
    /\ batch_count' = 0
    /\ env' = [env EXCEPT !.queue = @ \cup StartEvents(env, impl, cfg),
                          !.eid = @ + Cardinality(StartEvents(env, impl, cfg))]
    /\ pangkat' = [a \in Agents(impl, cfg) |-> [NoAgent EXCEPT !.pc = "init"]]
    /\ plauk' = [j \in Items(cfg) |->
                    [pc |-> "init", waktu_datang |-> 0, lauk_time |-> 0,
                     granted |-> -1, free |-> FALSE]]
    /\ pnasi' = [j \in Items(cfg) |->
                    [pc |-> "new", waktu_masuk |-> 0, nasi_time |-> 0,
                     granted |-> -1, free |-> FALSE, ended |-> -1]]
    /\ batches' = <<>>
    /\ UNCHANGED <<impl, cfg, running, rng, lauk, angkat, nasi, antrian_lauk,
                   antrian_nasi, statistics, runs, saved, held>>

\* env.run() returns when the event queue is empty
Return ==
    /\ phase = "running"
    /\ running = NoProc
    /\ env.queue = {}
    /\ phase' = "returned"
    /\ UNCHANGED <<impl, cfg, env, running, rng, lauk, angkat, nasi,
                   antrian_lauk, antrian_nasi, buffer_angkat, statistics,
                   ompreng_diproses, batch_count, plauk, pangkat, pnasi,
                   batches, runs, saved, held>>

-----------------------------------------------------------------------------
(* proses_lauk *)

\* waktu_datang = env.now; yield antrian_lauk.put(ompreng_id)
LaukArrive(j) ==
    /\ Fires(<<"init", "lauk", j>>)
    /\ LET e == Pop(env)
       IN  /\ plauk' = [plauk EXCEPT ![j].pc = "put", ![j].waktu_datang = e.now,
                                     ![j].free = Len(lauk.users) < lauk.capacity]
           /\ antrian_lauk' = Append(antrian_lauk, j)
           /\ env' = Schedule(e, NORMAL, 0, <<"resume", "lauk", j>>)
    /\ UNCHANGED <<impl, cfg, phase, running, rng, lauk, angkat, nasi,
                   antrian_nasi, buffer_angkat, statistics, ompreng_diproses,
                   batch_count, pangkat, pnasi, batches, runs, saved, held>>

\* with self.lauk.request() as request: yield request
LaukRequest(j) ==
    /\ Fires(<<"resume", "lauk", j>>)
    /\ plauk[j].pc = "put"
    /\ LET re == Request(lauk, Pop(env), <<"lauk", j>>)
       IN  /\ lauk' = re[1]
           /\ env' = re[2]
           /\ plauk' = Stamp([plauk EXCEPT ![j].pc = "req"], "lauk", lauk,
                             re[1], Pop(env).now)
    /\ UNCHANGED <<impl, cfg, phase, running, rng, angkat, nasi, antrian_lauk,
                   antrian_nasi, buffer_angkat, statistics, ompreng_diproses,
                   batch_count, pangkat, pnasi, batches, runs, saved, held>>

\* the unit is granted: yield self.antrian_lauk.get()
LaukGet(j) ==
    /\ Fires(<<"resume", "lauk", j>>)
    /\ plauk[j].pc = "req"
    /\ antrian_lauk' = Tail(antrian_lauk)
    /\ env' = Schedule(Pop(env), NORMAL, 0, <<"resume", "lauk", j>>)
    /\ plauk' = [plauk EXCEPT ![j].pc = "get"]
    /\ UNCHANGED <<impl, cfg, phase, running, rng, lauk, angkat, nasi,
                   antrian_nasi, buffer_angkat, statistics, ompreng_diproses,
                   batch_count, pangkat, pnasi, batches, runs, saved, held>>

\* lauk_time = generate_lauk_time(); yield env.timeout(lauk_time)
LaukServe(j) ==
    /\ Fires(<<"resume", "lauk", j>>)
    /\ plauk[j].pc = "get"
    /\ \E r \in Raws(cfg.LAUK_MIN, cfg.LAUK_MAX) :
          /\ RawOK(r)
          /\ rng' = RngAfter(r)
          /\ plauk' = [plauk EXCEPT ![j].pc = "svc",
                                    ![j].lauk_time = generate_lauk_time(r)]
          /\ env' = Schedule(Pop(env), NORMAL, generate_lauk_time(r),
                             <<"resume", "lauk", j>>)
    /\ UNCHANGED <<impl, cfg, phase, running, lauk, angkat, nasi, antrian_lauk,
                   antrian_nasi, buffer_angkat, statistics, ompreng_diproses,
                   batch_count, pangkat, pnasi, batches, runs, saved, held>>

\* mutant of LaukDone: the wait recorded is the whole time at the stage
LaukDone_Sojourn(j) ==
    /\ Fires(<<"resume", "lauk", j>>)
    /\ plauk[j].pc = "svc"
    /\ LET e == Pop(env)
           re == Release(lauk, e, <<"lauk", j>>, <<"lauk", 0>>)
       IN  /\ statistics' =
                [statistics EXCEPT
                   !.waktu_layanan_lauk = Append(@, plauk[j].lauk_time),
                   !.waktu_tunggu_lauk = Append(@, e.now - plauk[j].waktu_datang)]
           /\ lauk' = re[1]
           /\ env' = re[2]
           /\ buffer_angkat' = Append(buffer_angkat, [id |-> j, waktu_masuk |-> e.now])
    /\ plauk' = [plauk EXCEPT ![j].pc = "done"]
    /\ UNCHANGED <<impl, cfg, phase, running, rng, angkat, nasi, antrian_lauk,
                   antrian_nasi, ompreng_diproses, batch_count, pangkat, pnasi,
                   batches, runs, saved, held>>

\* the service ends: record it, leave the with block (release), append the
\* item to buffer_angkat
LaukDone(j) ==
    /\ Fires(<<"resume", "lauk", j>>)
    /\ plauk[j].pc = "svc"
    /\ LET e == Pop(env)
           re == Release(lauk, e, <<"lauk", j>>, <<"lauk", 0>>)
       IN  /\ statistics' =
                [statistics EXCEPT
                   !.waktu_layanan_lauk = Append(@, plauk[j].lauk_time),
                   !.waktu_tunggu_lauk =
                       Append(@, e.now - plauk[j].waktu_datang - plauk[j].lauk_time)]
           /\ lauk' = re[1]
           /\ env' = re[2]
           /\ buffer_angkat' = Append(buffer_angkat, [id |-> j, waktu_masuk |-> e.now])
    /\ plauk' = [plauk EXCEPT ![j].pc = "done"]
    /\ UNCHANGED <<impl, cfg, phase, running, rng, angkat, nasi, antrian_lauk,
                   antrian_nasi, ompreng_diproses, batch_count, pangkat, pnasi,
                   batches, runs, saved, held>>

\* the release event of self.lauk is processed: the next request is granted
LaukReleased ==
    /\ Fires(<<"release", "lauk", 0>>)
    /\ LET re == TriggerPut(lauk, Pop(env))
       IN  /\ lauk' = re[1]
           /\ env' = re[2]
           /\ plauk' = Stamp(plauk, "lauk", lauk, re[1], Pop(env).now)
    /\ UNCHANGED <<impl, cfg, phase, running, rng, angkat, nasi, antrian_lauk,
                   antrian_nasi, buffer_angkat, statistics, ompreng_diproses,
                   batch_count, pangkat, pnasi, batches, runs, saved, held>>

-----------------------------------------------------------------------------
(* proses_nasi *)

\* waktu_masuk = env.now; with self.nasi.request() as request: yield request
NasiArrive(j) ==
    /\ Fires(<<"init", "nasi", j>>)
    /\ LET e == Pop(env)
           re == Request(nasi, e, <<"nasi", j>>)
       IN  /\ pnasi' = Stamp([pnasi EXCEPT ![j].pc = "req",
                                           ![j].waktu_masuk = e.now,
                                           ![j].free =
                                              Len(nasi.users) < nasi.capacity],
                             "nasi", nasi, re[1], e.now)
           /\ nasi' = re[1]
           /\ env' = re[2]
    /\ UNCHANGED <<impl, cfg, phase, running, rng, lauk, angkat, antrian_lauk,
                   antrian_nasi, buffer_angkat, statistics, ompreng_diproses,
                   batch_count, plauk, pangkat, batches, runs, saved, held>>

\* nasi_time = generate_nasi_time(); yield env.timeout(nasi_time)
NasiServe(j) ==
    /\ Fires(<<"resume", "nasi", j>>)
    /\ pnasi[j].pc = "req"
    /\ \E r \in Raws(cfg.NASI_MIN, cfg.NASI_MAX) :
          /\ RawOK(r)
          /\ rng' = RngAfter(r)
          /\ pnasi' = [pnasi EXCEPT ![j].pc = "svc",
                                    ![j].nasi_time = generate_nasi_time(r)]
          /\ env' = Schedule(Pop(env), NORMAL, generate_nasi_time(r),
                             <<"resume", "nasi", j>>)
    /\ UNCHANGED <<impl, cfg, phase, running, lauk, angkat, nasi, antrian_lauk,
                   antrian_nasi, buffer_angkat, statistics, ompreng_diproses,
                   batch_count, plauk, pangkat, batches, runs, saved, held>>

\* mutant of NasiDone: the completion record is put in front of the others
NasiDone_InFront(j) ==
    /\ Fires(<<"resume", "nasi", j>>)
    /\ pnasi[j].pc = "svc"
    /\ LET e == Pop(env)
           re == Release(nasi, e, <<"nasi", j>>, <<"nasi", 0>>)
       IN  /\ statistics' =
                [statistics EXCEPT
                   !.waktu_layanan_nasi = Append(@, pnasi[j].nasi_time),
                   !.waktu_tunggu_nasi =
                       Append(@, e.now - pnasi[j].waktu_masuk - pnasi[j].nasi_time),
                   !.ompreng_data = <<[id |-> j, waktu_selesai |-> e.now]>> \o @]
           /\ nasi' = re[1]
           /\ env' = re[2]
    /\ ompreng_diproses' = ompreng_diproses + 1
    /\ pnasi' = [pnasi EXCEPT ![j].pc = "done"]
    /\ UNCHANGED <<impl, cfg, phase, running, rng, lauk, angkat, antrian_lauk,
                   antrian_nasi, buffer_angkat, batch_count, plauk, pangkat,
                   batches, runs, saved, held>>

\* the service ends: record it, append the completion record, count the
\* item, leave the with block (release)
NasiDone(j) ==
    /\ Fires(<<"resume", "nasi", j>>)
    /\ pnasi[j].pc = "svc"
    /\ LET e == Pop(env)
           re == Release(nasi, e, <<"nasi", j>>, <<"nasi", 0>>)
       IN  /\ statistics' =
                [statistics EXCEPT
                   !.waktu_layanan_nasi = Append(@, pnasi[j].nasi_time),
                   !.waktu_tunggu_nasi =
                       Append(@, e.now - pnasi[j].waktu_masuk - pnasi[j].nasi_time),
                   !.ompreng_data = Append(@, [id |-> j, waktu_selesai |-> e.now])]
           /\ nasi' = re[1]
           /\ env' = re[2]
    /\ ompreng_diproses' = ompreng_diproses + 1
    /\ pnasi' = [pnasi EXCEPT ![j].pc = "done"]
    /\ UNCHANGED <<impl, cfg, phase, running, rng, lauk, angkat, antrian_lauk,
                   antrian_nasi, buffer_angkat, batch_count, plauk, pangkat,
                   batches, runs, saved, held>>

\* the release event of self.nasi is processed
NasiReleased ==
    /\ Fires(<<"release", "nasi", 0>>)
    /\ LET re == TriggerPut(nasi, Pop(env))
       IN  /\ nasi' = re[1]
           /\ env' = re[2]
           /\ pnasi' = Stamp(pnasi, "nasi", nasi, re[1], Pop(env).now)
    /\ UNCHANGED <<impl, cfg, phase, running, rng, lauk, angkat, antrian_lauk,
                   antrian_nasi, buffer_angkat, statistics, ompreng_diproses,
                   batch_count, plauk, pangkat, batches, runs, saved, held>>

-----------------------------------------------------------------------------
(* proses_angkat (piket.py) and proses_angkat_cepat (checkpoint) *)

\* mutant of ResIdx: every pickup process requests the first Resource
ResIdx_Shared(a) == 0

\* the Resource a pickup process requests
ResIdx(a) == IF impl = "piket" THEN 0 ELSE a

\* more items are still to come: completed + buffered < total
Pending == ompreng_diproses + Len(buffer_angkat) < TOTAL_OMPRENG(cfg)

\* mutant of LoopCond: the loop ends once no item is pending
LoopCond_NonePending == Pending

\* the loop condition of the pickup process
LoopCond == ompreng_diproses < TOTAL_OMPRENG(cfg)

\* mutant of MustWait: the inner loop polls only while the buffer is empty
MustWait_WhileEmpty(target) == Len(buffer_angkat) = 0 /\ Pending

\* piket.py line 196: the condition of the inner polling loop
MustWait(target) == Len(buffer_angkat) < target /\ Pending

\* mutant of BatchSize: the hard cap is left out
BatchSize_NoCap(target) == Min2(target, Len(buffer_angkat))

\* batch_size: min(batch_target, len(buffer)) in piket.py,
\* min(target, len(buffer), 15) in the checkpoint
BatchSize(target) ==
    IF impl = "piket" THEN Min2(target, Len(buffer_angkat))
    ELSE Min2(Min2(target, Len(buffer_angkat)), HardCap)

\* "if batch_size < 4 and (completed + len(buffer) < total)"
Defer(bs) == bs < MinAcceptable /\ Pending

\* the frame of a pickup step that forms no batch
NoBatch ==
    UNCHANGED <<buffer_angkat, batch_count, statistics, angkat, batches>>

\* the loop condition is false: the process ends
AngkatExit(a, e) ==
    /\ pangkat' = [pangkat EXCEPT ![a].pc = "done"]
    /\ env' = e
    /\ running' = NoProc
    /\ phase' = phase
    /\ NoBatch

\* random.randint raises ValueError (empty range): the exception leaves
\* the process and env.run()
AngkatCrash(a, e) ==
    /\ pangkat' = [pangkat EXCEPT ![a].pc = "done"]
    /\ env' = e
    /\ running' = NoProc
    /\ phase' = "crashed"
    /\ NoBatch

\* yield self.env.timeout(tick)
AngkatWait(a, e, pc, target) ==
    /\ pangkat' = [pangkat EXCEPT ![a].pc = pc, ![a].batch_target = target]
    /\ env' = Schedule(e, NORMAL, Tick, <<"resume", "angkat", a>>)
    /\ running' = NoProc
    /\ phase' = phase
    /\ NoBatch

\* piket.py line 203: `continue` without a yield; the process keeps the
\* interpreter and evaluates the loop again
AngkatContinue(a, e, target) ==
    /\ pangkat' = [pangkat EXCEPT ![a].pc = "head", ![a].batch_target = target]
    /\ env' = e
    /\ running' = <<"angkat", a>>
    /\ phase' = phase
    /\ NoBatch

\* mutant of FormBatch: the batch is taken from the back of the buffer
FormBatch_Back(a, e, target, bs) ==
    LET len == Len(buffer_angkat)
        batch == SubSeq(buffer_angkat, len - bs + 1, len)
        waits == [n \in 1 .. bs |-> e.now - batch[n].waktu_masuk]
        re == Request(angkat[ResIdx(a)], e, <<"angkat", a>>)
    IN  /\ buffer_angkat' = SubSeq(buffer_angkat, 1, len - bs)
        /\ batch_count' = batch_count + 1
        /\ statistics' =
             [statistics EXCEPT
                !.batch_sizes = IF impl = "piket" THEN Append(@, bs) ELSE @,
                !.waktu_tunggu_angkat = @ \o waits]
        /\ batches' = Append(batches,
                             [size |-> bs, pending |-> Pending, at |-> e.now,
                              agent |-> a, target |-> target,
                              buffered |-> len,
                              ids |-> [n \in 1 .. bs |-> batch[n].id],
                              masuk |-> [n \in 1 .. bs |-> batch[n].waktu_masuk]])
        /\ angkat' = [angkat EXCEPT ![ResIdx(a)] = re[1]]
        /\ env' = re[2]
        /\ pangkat' = [pangkat EXCEPT ![a].pc = "req", ![a].batch_target = target,
                                      ![a].batch = batch, ![a].k = 0,
                                      ![a].waktu_mulai = e.now]
        /\ running' = NoProc
        /\ phase' = phase

\* mutant of FormBatch: the last item taken stays in the buffer
FormBatch_KeepLast(a, e, target, bs) ==
    LET batch == SubSeq(buffer_angkat, 1, bs)
        waits == [n \in 1 .. bs |-> e.now - batch[n].waktu_masuk]
        re == Request(angkat[ResIdx(a)], e, <<"angkat", a>>)
    IN  /\ buffer_angkat' = SubSeq(buffer_angkat, bs, Len(buffer_angkat))
        /\ batch_count' = batch_count + 1
        /\ statistics' =
             [statistics EXCEPT
                !.batch_sizes = IF impl = "piket" THEN Append(@, bs) ELSE @,
                !.waktu_tunggu_angkat = @ \o waits]
        /\ batches' = Append(batches,
                             [size |-> bs, pending |-> Pending, at |-> e.now,
                              agent |-> a, target |-> target,
                              buffered |-> Len(buffer_angkat),
                              ids |-> [n \in 1 .. bs |-> batch[n].id],
                              masuk |-> [n \in 1 .. bs |-> batch[n].waktu_masuk]])
        /\ angkat' = [angkat EXCEPT ![ResIdx(a)] = re[1]]
        /\ env' = re[2]
        /\ pangkat' = [pangkat EXCEPT ![a].pc = "req", ![a].batch_target = target,
                                      ![a].batch = batch, ![a].k = 0,
                                      ![a].waktu_mulai = e.now]
        /\ running' = NoProc
        /\ phase' = phase

\* the front bs items leave the buffer as a batch; the process requests
\* its resource
FormBatch(a, e, target, bs) ==
    LET batch == SubSeq(buffer_angkat, 1, bs)
        waits == [n \in 1 .. bs |-> e.now - batch[n].waktu_masuk]
        re == Request(angkat[ResIdx(a)], e, <<"angkat", a>>)
    IN  /\ buffer_angkat' = SubSeq(buffer_angkat, bs + 1, Len(buffer_angkat))
        /\ batch_count' = batch_count + 1
        /\ statistics' =
             [statistics EXCEPT
                !.batch_sizes = IF impl = "piket" THEN Append(@, bs) ELSE @,
                !.waktu_tunggu_angkat = @ \o waits]
        /\ batches' = Append(batches,
                             [size |-> bs, pending |-> Pending, at |-> e.now,
                              agent |-> a, target |-> target,
                              buffered |-> Len(buffer_angkat),
                              ids |-> [n \in 1 .. bs |-> batch[n].id],
                              masuk |-> [n \in 1 .. bs |-> batch[n].waktu_masuk]])
        /\ angkat' = [angkat EXCEPT ![ResIdx(a)] = re[1]]
        /\ env' = re[2]
        /\ pangkat' = [pangkat EXCEPT ![a].pc = "req", ![a].batch_target = target,
                                      ![a].batch = batch, ![a].k = 0,
                                      ![a].waktu_mulai = e.now]
        /\ running' = NoProc
        /\ phase' = phase

\* piket.py lines 196-226 with batch_target already sampled
PiketInner(a, e, target) ==
    IF MustWait(target) THEN AngkatWait(a, e, "poll", target)
    ELSE IF buffer_angkat # <<>>
         THEN IF Defer(BatchSize(target))
              THEN AngkatContinue(a, e, target)
              ELSE FormBatch(a, e, target, BatchSize(target))
         ELSE AngkatWait(a, e, "idle", target)

\* piket.py lines 193-226: one evaluation of the outer loop
PiketLoop(a, e) ==
    IF ~LoopCond THEN AngkatExit(a, e) /\ rng' = rng
    ELSE IF cfg.ANGKAT_BATCH_MIN > cfg.ANGKAT_BATCH_MAX
         THEN AngkatCrash(a, e) /\ rng' = rng
         ELSE \E r \in Raws(cfg.ANGKAT_BATCH_MIN, cfg.ANGKAT_BATCH_MAX) :
                 /\ RawOK(r)
                 /\ rng' = RngAfter(r)
                 /\ PiketInner(a, e, generate_batch_size(r))

\* checkpoint lines 152-173: one evaluation of the loop
CepatLoop(a, e) ==
    IF ~LoopCond THEN AngkatExit(a, e) /\ rng' = rng
    ELSE IF Len(buffer_angkat) = 0
         THEN AngkatWait(a, e, "idle", pangkat[a].batch_target) /\ rng' = rng
         ELSE IF cfg.ANGKAT_BATCH_MIN > cfg.ANGKAT_BATCH_MAX
              THEN AngkatCrash(a, e) /\ rng' = rng
              ELSE \E r \in Raws(cfg.ANGKAT_BATCH_MIN, cfg.ANGKAT_BATCH_MAX) :
                      /\ RawOK(r)
                      /\ rng' = RngAfter(r)
                      /\ IF Defer(BatchSize(generate_batch_size(r)))
                         THEN AngkatWait(a, e, "idle", generate_batch_size(r))
                         ELSE FormBatch(a, e, generate_batch_size(r),
                                        BatchSize(generate_batch_size(r)))

AngkatLoop(a, e) == IF impl = "piket" THEN PiketLoop(a, e) ELSE CepatLoop(a, e)

\* the process starts
AngkatStart(a) ==
    /\ Fires(<<"init", "angkat", a>>)
    /\ AngkatLoop(a, Pop(env))
    /\ UNCHANGED <<impl, cfg, lauk, nasi, antrian_lauk, antrian_nasi,
                   ompreng_diproses, plauk, pnasi, runs, saved, held>>

\* piket.py line 197: the poll tick of the inner loop has passed
AngkatPoll(a) ==
    /\ Fires(<<"resume", "angkat", a>>)
    /\ pangkat[a].pc = "poll"
    /\ rng' = rng
    /\ PiketInner(a, Pop(env), pangkat[a].batch_target)
    /\ UNCHANGED <<impl, cfg, lauk, nasi, antrian_lauk, antrian_nasi,
                   ompreng_diproses, plauk, pnasi, runs, saved, held>>

\* piket.py line 226, checkpoint lines 155 and 165: the tick has passed
AngkatIdle(a) ==
    /\ Fires(<<"resume", "angkat", a>>)
    /\ pangkat[a].pc = "idle"
    /\ AngkatLoop(a, Pop(env))
    /\ UNCHANGED <<impl, cfg, lauk, nasi, antrian_lauk, antrian_nasi,
                   ompreng_diproses, plauk, pnasi, runs, saved, held>>

\* the loop is evaluated again after the `continue` of piket.py line 203;
\* no event is popped and the clock stands still
AngkatRetry(a) ==
    /\ phase = "running"
    /\ running = <<"angkat", a>>
    /\ AngkatLoop(a, env)
    /\ UNCHANGED <<impl, cfg, lauk, nasi, antrian_lauk, antrian_nasi,
                   ompreng_diproses, plauk, pnasi, runs, saved, held>>

\* the transport of the items of batch ended at time now
Carried(p, batch, now) ==
    [j \in DOMAIN p |->
        IF \E n \in 1 .. Len(batch) : batch[n].id = j
        THEN [p[j] EXCEPT !.ended = now]
        ELSE p[j]]

\* the request is granted: sample the transport time and carry the batch
AngkatGranted(a) ==
    /\ Fires(<<"resume", "angkat", a>>)
    /\ pangkat[a].pc = "req"
    /\ \E r \in Raws(cfg.ANGKAT_MIN, cfg.ANGKAT_MAX) :
          /\ RawOK(r)
          /\ rng' = RngAfter(r)
          /\ pangkat' = [pangkat EXCEPT ![a].pc = "svc",
                                        ![a].angkat_time = generate_angkat_time(r)]
          /\ env' = Schedule(Pop(env), NORMAL, generate_angkat_time(r),
                             <<"resume", "angkat", a>>)
    /\ UNCHANGED <<impl, cfg, phase, running, lauk, angkat, nasi, antrian_lauk,
                   antrian_nasi, buffer_angkat, statistics, ompreng_diproses,
                   batch_count, plauk, pnasi, batches, runs, saved, held>>

\* mutant of AngkatDelivered: the items are handed over inside the with
\* block, before the release
AngkatDelivered_Holding(a) ==
    /\ Fires(<<"resume", "angkat", a>>)
    /\ pangkat[a].pc = "svc"
    /\ LET e == Pop(env)
       IN  /\ statistics' =
                [statistics EXCEPT
                   !.waktu_layanan_angkat = Append(@, pangkat[a].angkat_time),
                   !.batch_sizes = IF impl = "piket" THEN @
                                   ELSE Append(@, Len(pangkat[a].batch))]
           /\ angkat' = angkat
           /\ env' = Schedule(e, NORMAL, 0, <<"resume", "angkat", a>>)
           /\ pnasi' = Carried(pnasi, pangkat[a].batch, e.now)
    /\ antrian_nasi' = Append(antrian_nasi, pangkat[a].batch[1].id)
    /\ pangkat' = [pangkat EXCEPT ![a].pc = "put", ![a].k = 1]
    /\ UNCHANGED <<impl, cfg, phase, running, rng, lauk, nasi, antrian_lauk,
                   buffer_angkat, ompreng_diproses, batch_count, plauk,
                   batches, runs, saved, held>>

\* the transport ends: record it, leave the with block (release), and
\* yield antrian_nasi.put() for the first item of the batch
AngkatDelivered(a) ==
    /\ Fires(<<"resume", "angkat", a>>)
    /\ pangkat[a].pc = "svc"
    /\ LET e == Pop(env)
           re == Release(angkat[ResIdx(a)], e, <<"angkat", a>>,
                         <<"angkat", ResIdx(a)>>)
       IN  /\ statistics' =
                [statistics EXCEPT
                   !.waktu_layanan_angkat = Append(@, pangkat[a].angkat_time),
                   !.batch_sizes = IF impl = "piket" THEN @
                                   ELSE Append(@, Len(pangkat[a].batch))]
           /\ angkat' = [angkat EXCEPT ![ResIdx(a)] = re[1]]
           /\ env' = Schedule(re[2], NORMAL, 0, <<"resume", "angkat", a>>)
           /\ pnasi' = Carried(pnasi, pangkat[a].batch, e.now)
    /\ antrian_nasi' = Append(antrian_nasi, pangkat[a].batch[1].id)
    /\ pangkat' = [pangkat EXCEPT ![a].pc = "put", ![a].k = 1]
    /\ UNCHANGED <<impl, cfg, phase, running, rng, lauk, nasi, antrian_lauk,
                   buffer_angkat, ompreng_diproses, batch_count, plauk,
                   batches, runs, saved, held>>

\* env.process(proses_nasi(id)) for item k of the batch, then the put of
\* item k + 1
AngkatHandoff(a) ==
    /\ Fires(<<"resume", "angkat", a>>)
    /\ pangkat[a].pc = "put"
    /\ pangkat[a].k < Len(pangkat[a].batch)
    /\ LET k == pangkat[a].k
           e == Schedule(Pop(env), URGENT, 0,
                         <<"init", "nasi", pangkat[a].batch[k].id>>)
       IN  /\ pnasi' = [pnasi EXCEPT ![pangkat[a].batch[k].id].pc = "init"]
           /\ antrian_nasi' = Append(antrian_nasi, pangkat[a].batch[k + 1].id)
           /\ env' = Schedule(e, NORMAL, 0, <<"resume", "angkat", a>>)
           /\ pangkat' = [pangkat EXCEPT ![a].k = k + 1]
    /\ UNCHANGED <<impl, cfg, phase, running, rng, lauk, angkat, nasi,
                   antrian_lauk, buffer_angkat, statistics, ompreng_diproses,
                   batch_count, plauk, batches, runs, saved, held>>

\* env.process(proses_nasi(id)) for the last item, then the loop again
AngkatHandoffLast(a) ==
    /\ Fires(<<"resume", "angkat", a>>)
    /\ pangkat[a].pc = "put"
    /\ pangkat[a].k = Len(pangkat[a].batch)
    /\ LET k == pangkat[a].k
       IN  /\ pnasi' = [pnasi EXCEPT ![pangkat[a].batch[k].id].pc = "init"]
           /\ AngkatLoop(a, Schedule(Pop(env), URGENT, 0,
                                     <<"init", "nasi", pangkat[a].batch[k].id>>))
    /\ UNCHANGED <<impl, cfg, lauk, nasi, antrian_lauk, antrian_nasi,
                   ompreng_diproses, plauk, runs, saved, held>>

\* the release event of a pickup resource is processed
AngkatReleased(k) ==
    /\ Fires(<<"release", "angkat", k>>)
    /\ LET re == TriggerPut(angkat[k], Pop(env))
       IN  /\ angkat' = [angkat EXCEPT ![k] = re[1]]
           /\ env' = re[2]
    /\ UNCHANGED <<impl, cfg, phase, running, rng, lauk, nasi, antrian_lauk,
                   antrian_nasi, buffer_angkat, statistics, ompreng_diproses,
                   batch_count, plauk, pangkat, pnasi, batches, runs, saved, held>>

-----------------------------------------------------------------------------
(* The specification *)

AllItems == UNION {Items(c) : c \in Configs}
AllAgents == UNION {Agents(i, c) : i \in Impls, c \in Configs}

Next ==
    \/ Construct
    \/ RunSimulation
    \/ Return
    \/ \E j \in AllItems :
          /\ phase = "running"
          /\ j \in Items(cfg)
          /\ \/ LaukArrive(j)
             \/ LaukRequest(j)
             \/ LaukGet(j)
             \/ LaukServe(j)
             \/ LaukDone(j)
             \/ NasiArrive(j)
             \/ NasiServe(j)
             \/ NasiDone(j)
    \/ LaukReleased
    \/ NasiReleased
    \/ \E a \in AllAgents :
          /\ phase = "running"
          /\ a \in Agents(impl, cfg)
          /\ \/ AngkatStart(a)
             \/ AngkatPoll(a)
             \/ AngkatIdle(a)
             \/ AngkatRetry(a)
             \/ AngkatGranted(a)
             \/ AngkatDelivered(a)
             \/ AngkatHandoff(a)
             \/ AngkatHandoffLast(a)
             \/ AngkatReleased(a)

Spec == Init /\ [][Next]_vars

\* the interpreter always takes its next step
LiveSpec == Spec /\ WF_vars(Next)

\* a caller of the classes that may construct a model, run another one and
\* only then run the first (the drivers of piket.py never do)
HeldSpec == Init /\ [][Next \/ TakeHeld]_vars

\* the runs above, and a second run of the same model object
AgainSpec == Init /\ [][Next \/ RunAgain]_vars

-----------------------------------------------------------------------------
(* Helpers of the properties *)

RECURSIVE SumSeq(_)
SumSeq(q) == IF q = <<>> THEN 0 ELSE Head(q) + SumSeq(Tail(q))

BatchSizes == [n \in 1 .. Len(batches) |-> batches[n].size]

Records == statistics.ompreng_data

-----------------------------------------------------------------------------
(* C1 *)

\* C1: when the run of a valid configuration has returned, the completed
\* counter equals TOTAL_OMPRENG, there are TOTAL_OMPRENG completion records
\* and every record has waktu_selesai >= 0.
C1_Conservation ==
    (phase = "returned" /\ ValidConfig(cfg)) =>
        /\ ompreng_diproses = TOTAL_OMPRENG(cfg)
        /\ Len(Records) = TOTAL_OMPRENG(cfg)
        /\ \A n \in 1 .. Len(Records) : Records[n].waktu_selesai >= 0

\* a valid run of several items in several batches has returned
C1_Witness ==
    /\ phase = "returned"
    /\ ValidConfig(cfg)
    /\ Len(batches) >= 2
    /\ ompreng_diproses >= 3

-----------------------------------------------------------------------------
(* C2 *)

\* the agent holds the interpreter at the head of its loop and every batch
\* target it can sample sends it back there without a yield: nothing but
\* the generator changes, the clock stands still, no other process runs
SpinsForever(a) ==
    /\ phase = "running"
    /\ running = <<"angkat", a>>
    /\ LoopCond
    /\ cfg.ANGKAT_BATCH_MIN <= cfg.ANGKAT_BATCH_MAX
    /\ buffer_angkat # <<>>
    /\ \A r \in 0 .. MaxRaw :
          /\ ~MustWait(generate_batch_size(r))
          /\ Defer(BatchSize(generate_batch_size(r)))

\* C2: for every valid configuration, batch ranges below the minimum
\* acceptable size included, no reachable state lets a pickup agent retry
\* forever without virtual time advancing (so the run can terminate).
C2_Progress ==
    ValidConfig(cfg) => \A a \in DOMAIN pangkat : ~SpinsForever(a)

-----------------------------------------------------------------------------
(* C3 *)

\* a valid configuration with three items and one pickup agent
OneAgentThreeItems ==
    /\ ValidConfig(cfg)
    /\ TOTAL_OMPRENG(cfg) = 3
    /\ Cardinality(Agents(impl, cfg)) = 1

\* the run has returned and the batches formed hold three items
AllThreeDispatched == phase = "returned" /\ SumSeq(BatchSizes) = 3

\* the next step is agent a evaluating its loop, and so examining the buffer
ExaminesBuffer(a) ==
    \/ running = <<"angkat", a>>
    \/ Fires(<<"init", "angkat", a>>)
    \/ Fires(<<"resume", "angkat", a>>) /\ pangkat[a].pc \in {"poll", "idle"}

\* an agent that examines a non-empty buffer while nothing is pending forms
\* a batch in that step
FlushStep ==
    [][\A a \in DOMAIN pangkat :
          (/\ ValidConfig(cfg)
           /\ ExaminesBuffer(a)
           /\ buffer_angkat # <<>>
           /\ ~Pending)
          => /\ Len(batches') = Len(batches) + 1
             /\ batches'[Len(batches')].agent = a
             /\ Len(buffer_angkat') < Len(buffer_angkat)]_vars

\* C3: an agent that examines a non-empty buffer when completed + buffered
\* = total forms a batch in that step, even of fewer than four items; and
\* with three items and one pickup agent the run of a valid configuration
\* eventually returns with all three items dispatched.
C3_ScenarioC == FlushStep /\ (OneAgentThreeItems => <>AllThreeDispatched)

-----------------------------------------------------------------------------
(* C4 *)

\* C4: every formed batch has at least one item and at most its sampled
\* target, in the checkpoint at most the hard cap of 15 (piket.py has no
\* cap); a batch of fewer than four items is formed only when no item is
\* pending, that is completed + buffered = total at formation.
C4_BatchBounds ==
    \A n \in 1 .. Len(batches) :
        /\ batches[n].size >= 1
        /\ batches[n].size <= batches[n].target
        /\ impl = "cepat" => batches[n].size <= HardCap
        /\ batches[n].size < MinAcceptable => ~batches[n].pending

\* the cap was binding: more than 15 items were buffered and wanted
C4_Witness ==
    \E n \in 1 .. Len(batches) :
        /\ impl = "cepat"
        /\ batches[n].size = HardCap
        /\ batches[n].buffered > HardCap
        /\ batches[n].target > HardCap

-----------------------------------------------------------------------------
(* C5 *)

\* C5: a second freshly constructed model with the same Config and seed
\* produces on its run the same sequence of completion records (ids, order
\* and waktu_selesai) as the first.
C5_Determinism ==
    (runs >= 2 /\ phase = "returned") => Records = saved

\* the second run has returned after replaying sampled (not constant) times
C5_Witness ==
    /\ runs = 2
    /\ phase = "returned"
    /\ Len(saved) >= 2
    /\ \E n \in 1 .. Len(rng.stream) : rng.stream[n] # 0

-----------------------------------------------------------------------------
(* C6 *)

\* C6 as stated: in scenario A one batch of size 1 is formed, every
\* recorded wait is zero and waktu_selesai is the sum of the three sampled
\* service times.
C6_ScenarioA_Stated ==
    (cfg = ScenarioA /\ phase = "returned") =>
        /\ BatchSizes = <<1>>
        /\ statistics.waktu_tunggu_lauk = <<0>>
        /\ statistics.waktu_tunggu_angkat = <<0>>
        /\ statistics.waktu_tunggu_nasi = <<0>>
        /\ Len(Records) = 1
        /\ Records[1].waktu_selesai =
              statistics.waktu_layanan_lauk[1]
              + statistics.waktu_layanan_angkat[1]
              + statistics.waktu_layanan_nasi[1]

\* C6 amended: in scenario A one batch of size 1 is formed, the entry and
\* final waits are zero, the buffer wait is the time to the agent's next
\* poll (between 0 and one poll tick), and waktu_selesai is the sum of the
\* three sampled service times plus that buffer wait.
C6_ScenarioA ==
    (cfg = ScenarioA /\ phase = "returned") =>
        /\ BatchSizes = <<1>>
        /\ statistics.waktu_tunggu_lauk = <<0>>
        /\ statistics.waktu_tunggu_nasi = <<0>>
        /\ Len(statistics.waktu_tunggu_angkat) = 1
        /\ statistics.waktu_tunggu_angkat[1] >= 0
        /\ statistics.waktu_tunggu_angkat[1] <= Tick
        /\ Len(Records) = 1
        /\ Records[1].waktu_selesai =
              statistics.waktu_layanan_lauk[1]
              + statistics.waktu_tunggu_angkat[1]
              + statistics.waktu_layanan_angkat[1]
              + statistics.waktu_layanan_nasi[1]

\* scenario A has returned and the item waited in the buffer for a poll
C6_Witness ==
    /\ cfg = ScenarioA
    /\ phase = "returned"
    /\ Len(Records) = 1
    /\ statistics.waktu_tunggu_angkat[1] > 0

-----------------------------------------------------------------------------
(* C7 *)

\* C7 as stated: in scenario B exactly one batch is formed, of size 10,
\* and no batch is formed while the buffer holds fewer than 10 items.
C7_ScenarioB_Stated ==
    cfg = ScenarioB =>
        /\ Len(batches) <= 1
        /\ \A n \in 1 .. Len(batches) :
              batches[n].size = 10 /\ batches[n].buffered >= 10
        /\ phase = "returned" => Len(batches) = 1

\* C7 amended: in scenario B the batch sizes sum to 10 when the run has
\* returned and no batch of fewer than 4 items is formed while items are
\* pending; in piket.py exactly one batch is formed, of size 10, once the
\* buffer holds all 10 items; the checkpoint forms a batch as soon as a
\* poll finds at least 4 items buffered.
C7_ScenarioB ==
    cfg = ScenarioB =>
        /\ phase = "returned" => SumSeq(BatchSizes) = 10
        /\ \A n \in 1 .. Len(batches) :
              /\ batches[n].size = Min2(10, batches[n].buffered)
              /\ batches[n].size < MinAcceptable => ~batches[n].pending
              /\ batches[n].pending => batches[n].buffered >= MinAcceptable
        /\ impl = "piket" =>
              /\ Len(batches) <= 1
              /\ \A n \in 1 .. Len(batches) :
                    batches[n].size = 10 /\ batches[n].buffered = 10
              /\ phase = "returned" => Len(batches) = 1

\* scenario B has returned in piket.py with its one batch of ten
C7_Witness ==
    /\ cfg = ScenarioB
    /\ impl = "piket"
    /\ phase = "returned"
    /\ BatchSizes = <<10>>

-----------------------------------------------------------------------------
(* C8 *)

\* C8: with a staff count of 0 for any stage the construction fails: no
\* model is ready, no process is started, no event is scheduled and no
\* item is processed.
C8_StaffZero ==
    (cfg.STAFF_LAUK = 0 \/ cfg.STAFF_ANGKAT = 0 \/ cfg.STAFF_NASI = 0) =>
        /\ phase \in {"new", "error"}
        /\ env.queue = {}
        /\ plauk = <<>>

-----------------------------------------------------------------------------
(* C9 *)

\* a range with min > max, or fewer than one item
BadRanges(c) ==
    \/ c.LAUK_MIN > c.LAUK_MAX
    \/ c.ANGKAT_MIN > c.ANGKAT_MAX
    \/ c.NASI_MIN > c.NASI_MAX
    \/ c.ANGKAT_BATCH_MIN > c.ANGKAT_BATCH_MAX
    \/ TOTAL_OMPRENG(c) < 1

\* C9: a configuration with min > max in a range or with fewer than one
\* item is rejected at construction: the run never starts, never fails
\* midway and never returns a result.
C9_Rejected == BadRanges(cfg) => phase \in {"new", "error"}

-----------------------------------------------------------------------------
(* C10 *)

\* C10: within a run the clock never decreases, and for a valid
\* configuration no pending event lies before the clock.
C10_MonotonicTime ==
    [][runs' = runs =>
          /\ env'.now >= env.now
          /\ ValidConfig(cfg) =>
                \A ev \in env'.queue : ev.time >= env'.now]_vars

\* the clock has advanced and events are pending now and later
C10_Witness ==
    /\ phase = "running"
    /\ env.now > 0
    /\ \E ev \in env.queue : ev.time = env.now
    /\ \E ev \in env.queue : ev.time > env.now

-----------------------------------------------------------------------------
(* C11 *)

Members(q) == {q[n] : n \in 1 .. Len(q)}

\* the three kinds of pool, as the set of Resource objects of the model
Pools == {lauk, nasi} \cup {angkat[k] : k \in DOMAIN angkat}

\* C11: in every reachable state the number of units in use of every pool
\* (lauk, pickup, nasi) is between 0 and the pool's capacity.
C11_PoolCapacity ==
    \A res \in Pools :
        /\ Len(res.users) >= 0
        /\ Len(res.users) <= res.capacity

\* a pool of several units is full and a request waits for it
C11_Witness ==
    /\ lauk.capacity >= 2
    /\ Len(lauk.users) = lauk.capacity
    /\ lauk.put_queue # <<>>

-----------------------------------------------------------------------------
(* C12 *)

\* the release event of the pool called name is pending at the current time
ReleasePending(name) ==
    \E ev \in env.queue :
        ev.cb = <<"release", name[1], name[2]>> /\ ev.time = env.now

\* a unit of res is free while a request waits only within the instant of
\* a release: the release event that serves the waiter is pending now
NoIdleUnit(res, name) ==
    (res.put_queue # <<>> /\ Len(res.users) < res.capacity)
        => ReleasePending(name)

\* one step of a pool from r to r2: at most one request is granted; it is
\* the earliest waiter, or the request made in this step when none waited;
\* the waiters keep their order and a new request joins at the end; a
\* request made while a unit is free and nobody waits is granted at once
FifoStep(r, r2) ==
    LET old == r.put_queue
        granted == Members(r2.users) \ Members(r.users)
        came == (Members(r2.users) \cup Members(r2.put_queue))
                    \ (Members(r.users) \cup Members(r.put_queue))
        kept == IF granted # {} /\ old # <<>> THEN Tail(old) ELSE old
    IN  /\ Cardinality(granted) <= 1
        /\ \A w \in granted : IF old # <<>> THEN w = Head(old) ELSE w \in came
        /\ Len(r2.put_queue) >= Len(kept)
        /\ Len(r2.put_queue) <= Len(kept) + 1
        /\ SubSeq(r2.put_queue, 1, Len(kept)) = kept
        /\ Len(r2.put_queue) = Len(kept) + 1
              => r2.put_queue[Len(r2.put_queue)] \in came
        /\ \A w \in came :
              (old = <<>> /\ Len(r.users) < r.capacity)
                  => w \in Members(r2.users)

\* a request made in the step from r to r2 while fewer units are in use
\* than the pool has is granted in that step
GrantedIfFree(r, r2) ==
    LET came == (Members(r2.users) \cup Members(r2.put_queue))
                    \ (Members(r.users) \cup Members(r.put_queue))
    IN  \A w \in came : Len(r.users) < r.capacity => w \in Members(r2.users)

\* no unit stays idle over an instant while a request waits
NoIdleUnits ==
    /\ NoIdleUnit(lauk, <<"lauk", 0>>)
    /\ NoIdleUnit(nasi, <<"nasi", 0>>)
    /\ \A k \in DOMAIN angkat : NoIdleUnit(angkat[k], <<"angkat", k>>)

\* C12 as stated: every pool grants its units in request order; a request
\* made while a unit is free is granted at the same virtual time; when a
\* unit is released while requests wait, the earliest waiter is granted at
\* the release time, so no unit is idle while an item waits.
C12_PoolFifo_Stated ==
    /\ []NoIdleUnits
    /\ [][runs' = runs =>
             /\ FifoStep(lauk, lauk') /\ GrantedIfFree(lauk, lauk')
             /\ FifoStep(nasi, nasi') /\ GrantedIfFree(nasi, nasi')
             /\ \A k \in DOMAIN angkat :
                   FifoStep(angkat[k], angkat'[k])
                   /\ GrantedIfFree(angkat[k], angkat'[k])]_vars

\* C12 amended: every pool grants its units in request order; a request
\* made while a unit is free and no earlier request waits is granted at
\* once; when a unit is released while requests wait, the earliest waiter
\* is granted when the release event is processed, at the release time, so
\* no unit stays idle over an instant while an item waits.  A request made
\* between a release and its release event queues behind the waiters.
C12_PoolFifo ==
    /\ []NoIdleUnits
    /\ [][runs' = runs =>
             /\ FifoStep(lauk, lauk')
             /\ FifoStep(nasi, nasi')
             /\ \A k \in DOMAIN angkat : FifoStep(angkat[k], angkat'[k])]_vars

\* a unit of the nasi pool has just been released while requests wait, and
\* a new request is about to be made before the waiter is served
C12_Witness ==
    /\ env.now > 0
    /\ nasi.put_queue # <<>>
    /\ Len(nasi.users) < nasi.capacity
    /\ ReleasePending(<<"nasi", 0>>)
    /\ \E j \in Items(cfg) : Fires(<<"init", "nasi", j>>)

-----------------------------------------------------------------------------
(* C13 *)

\* one step of the shared buffer: it is left alone, or one item joins at
\* its end, or its front items leave, in their order, as the new batch
BufferStep ==
    \/ /\ buffer_angkat' = buffer_angkat
       /\ batches' = batches
    \/ /\ Len(buffer_angkat') = Len(buffer_angkat) + 1
       /\ SubSeq(buffer_angkat', 1, Len(buffer_angkat)) = buffer_angkat
       /\ batches' = batches
    \/ /\ Len(batches') = Len(batches) + 1
       /\ SubSeq(batches', 1, Len(batches)) = batches
       /\ LET b == batches'[Len(batches')]
          IN  /\ b.size >= 1
              /\ b.size <= Len(buffer_angkat)
              /\ Len(b.ids) = b.size
              /\ \A n \in 1 .. b.size : b.ids[n] = buffer_angkat[n].id
              /\ pangkat'[b.agent].batch = SubSeq(buffer_angkat, 1, b.size)
              /\ buffer_angkat' =
                    SubSeq(buffer_angkat, b.size + 1, Len(buffer_angkat))

RECURSIVE EntryTimes(_)
\* the buffer entry times of the batches, in the order of their formation,
\* followed by those of the items still buffered
EntryTimes(n) ==
    IF n = 0 THEN <<>> ELSE EntryTimes(n - 1) \o batches[n].masuk

\* items leave in the order they came: no batch is formed before an earlier
\* one, and no item is overtaken by one that entered the buffer later
LeaveInOrder ==
    LET t == EntryTimes(Len(batches))
               \o [n \in 1 .. Len(buffer_angkat) |-> buffer_angkat[n].waktu_masuk]
    IN  /\ \A m, n \in 1 .. Len(t) : m < n => t[m] <= t[n]
        /\ \A m, n \in 1 .. Len(batches) : m < n => batches[m].at <= batches[n].at

\* C13: a formed batch is exactly the front batch_size items of the shared
\* buffer in the order they were buffered, the remaining items keep their
\* order, and so an item that entered the buffer before another is in a
\* batch formed no later than the other's.
C13_BufferFifo ==
    /\ []LeaveInOrder
    /\ [][runs' = runs => BufferStep]_vars

\* a batch was formed from the front of a buffer that held more items, which
\* had entered at different times
C13_Witness ==
    \E n \in 1 .. Len(batches) :
        /\ batches[n].buffered > batches[n].size
        /\ batches[n].size >= 2
        /\ buffer_angkat # <<>>
        /\ buffer_angkat[1].waktu_masuk > batches[n].masuk[1]

-----------------------------------------------------------------------------
(* C15 *)

\* C15: the completion records a model produces on its run are the same
\* whether or not another model (of the same Config and seed) was run
\* between its construction and its run: the records of a held model equal
\* those of a model that ran right after its construction.
C15_Isolation ==
    (held /\ phase = "returned") => Records = saved

-----------------------------------------------------------------------------
(* C16 *)

\* the events processed in a step
Popped == env.queue \ env'.queue

\* the Initialize event of a process started with env.process(...)
IsStart(ev) == ev.cb[1] = "init"

\* C16 as stated: events scheduled at the same virtual time are resumed in
\* the order in which they were scheduled, for every pair of events, the
\* start of a nasi process spawned while other events are pending included.
C16_TieBreak_Stated ==
    [][runs' = runs =>
          \A ev \in Popped : \A f \in env.queue :
              /\ ev.time <= f.time
              /\ f.time = ev.time => ev.eid <= f.eid]_vars

\* C16 amended: of the events at the same virtual time, the starts of
\* processes (env.process) are resumed first, in the order of the calls,
\* even when other events of that time were scheduled before them; the
\* other events are resumed in the order in which they were scheduled.
C16_TieBreak ==
    [][runs' = runs =>
          \A ev \in Popped : \A f \in env.queue :
              /\ ev.time <= f.time
              /\ (f.time = ev.time /\ IsStart(f) = IsStart(ev))
                    => ev.eid <= f.eid
              /\ (f.time = ev.time /\ IsStart(f) # IsStart(ev))
                    => IsStart(ev)]_vars

\* the start of a nasi process is about to be resumed while an event of the
\* same time, scheduled before it, is pending
C16_Witness ==
    /\ phase = "running"
    /\ running = NoProc
    /\ \E ev \in env.queue : \E f \in env.queue :
          /\ ev = MinEvent(env.queue)
          /\ ev.cb[1] = "init" /\ ev.cb[2] = "nasi"
          /\ f.time = ev.time
          /\ f.eid < ev.eid

-----------------------------------------------------------------------------
(* C17 *)

\* the records as they are in one state
RecordsOK ==
    /\ \A m, n \in 1 .. Len(Records) :
          m # n => Records[m].id # Records[n].id
    /\ \A m, n \in 1 .. Len(Records) :
          m < n => Records[m].waktu_selesai <= Records[n].waktu_selesai
    /\ ompreng_diproses = Len(Records)

\* the records from one state to the next: they are kept and only added to
RecordsKept ==
    /\ Len(Records') >= Len(Records)
    /\ SubSeq(Records', 1, Len(Records)) = Records

\* C17: in every reachable state each item id is in at most one completion
\* record, the records are in non-decreasing order of waktu_selesai and the
\* completed counter equals their number; a record once appended is never
\* changed.
C17_Records ==
    /\ []RecordsOK
    /\ [][runs' = runs => RecordsKept]_vars

\* several items are complete, not in the order of their ids, at different
\* times, while others are still on their way
C17_Witness ==
    /\ phase = "running"
    /\ Len(Records) >= 2
    /\ Len(Records) < TOTAL_OMPRENG(cfg)
    /\ Records[1].id > Records[2].id
    /\ Records[1].waktu_selesai < Records[2].waktu_selesai

-----------------------------------------------------------------------------
(* C18 *)

\* the next step is agent a evaluating its loop: at its start, after a
\* tick, after the `continue`, or after handing over the last item of a batch
EvaluatesLoop(a) ==
    \/ ExaminesBuffer(a)
    \/ /\ Fires(<<"resume", "angkat", a>>)
       /\ pangkat[a].pc = "put"
       /\ pangkat[a].k = Len(pangkat[a].batch)

\* after the step agent a is suspended on a timeout of one poll tick
SuspendedOneTick(a) ==
    /\ running' = NoProc
    /\ pangkat'[a].pc \in {"poll", "idle"}
    /\ \E ev \in env'.queue :
          /\ ev.cb = <<"resume", "angkat", a>>
          /\ ev.time = env'.now + Tick

\* agent a evaluates its loop and its candidate batch size, for the target
\* it holds after the step, is below the minimum while items are pending
DeferCase(a) ==
    /\ EvaluatesLoop(a)
    /\ LoopCond
    /\ cfg.ANGKAT_BATCH_MIN <= cfg.ANGKAT_BATCH_MAX
    /\ Defer(BatchSize(pangkat'[a].batch_target))

\* the step takes nothing from the buffer and forms no batch
NothingTaken ==
    /\ buffer_angkat' = buffer_angkat
    /\ batches' = batches
    /\ batch_count' = batch_count

\* C18: when the candidate batch size is below 4 and completed + buffered <
\* total, the agent removes nothing from the buffer, forms no batch and
\* suspends for one poll tick, so that virtual time advances by one tick
\* before it examines the buffer again.
C18_DrainAvoidance ==
    [][\A a \in DOMAIN pangkat :
          DeferCase(a) => NothingTaken /\ SuspendedOneTick(a)]_vars

-----------------------------------------------------------------------------
(* C19 *)

\* agent a has left its loop
LeftLoop(a) == pangkat[a].pc = "done"

\* an agent that has left its loop did so with every item complete
LeftOnlyWhenComplete ==
    ValidConfig(cfg) =>
        \A a \in DOMAIN pangkat : LeftLoop(a) => ~LoopCond

\* after the step agent a has left its loop and has no event in the queue,
\* and the step formed no batch
LeavesNow(a) ==
    /\ pangkat'[a].pc = "done"
    /\ \A ev \in env'.queue : ev.cb # <<"resume", "angkat", a>>
    /\ NothingTaken

\* C19: a pickup agent leaves its loop only in a state where the global
\* completed count equals the total, and once it does every agent leaves
\* its loop the next time it evaluates the loop condition and schedules no
\* further poll or batch.
C19_LoopExit ==
    /\ []LeftOnlyWhenComplete
    /\ [][\A a \in DOMAIN pangkat :
             (ValidConfig(cfg) /\ EvaluatesLoop(a) /\ ~LoopCond)
             => LeavesNow(a)]_vars

-----------------------------------------------------------------------------
(* C20 *)

\* the places an item can be taken from: (batch, position in the batch)
Taken ==
    UNION {{<<n, i>> : i \in 1 .. Len(batches[n].ids)} :
              n \in 1 .. Len(batches)}

\* the ids of the items in the buffer
Buffered == {buffer_angkat[n].id : n \in 1 .. Len(buffer_angkat)}

\* the ids of the items in the batches formed so far
InBatches == {batches[p[1]].ids[p[2]] : p \in Taken}

\* the items that have passed the lauk stage
Served == {j \in DOMAIN plauk : plauk[j].pc = "done"}

\* no item is in two batches or twice in one, none is in a batch and still
\* in the buffer, and every item that passed the lauk stage is in one of them
EachTakenOnce ==
    /\ \A p, q \in Taken :
          p # q => batches[p[1]].ids[p[2]] # batches[q[1]].ids[q[2]]
    /\ \A n \in 1 .. Len(batches) : batches[n].size = Len(batches[n].ids)
    /\ Cardinality(Buffered) = Len(buffer_angkat)
    /\ Buffered \cap InBatches = {}
    /\ Buffered \cup InBatches = Served

\* with at least one pickup agent, the batches of a run that has returned
\* hold every item
AllTaken ==
    (phase = "returned" /\ cfg.STAFF_ANGKAT >= 1)
    => SumSeq(BatchSizes) = TOTAL_OMPRENG(cfg)

\* the size of a new batch is computed from the buffer of the state the
\* batch is taken in, and the items taken leave the buffer in the same step
AtomicTake ==
    /\ Len(buffer_angkat') < Len(buffer_angkat)
         => Len(batches') = Len(batches) + 1
    /\ Len(batches') = Len(batches) + 1 =>
         LET b == batches'[Len(batches')]
         IN  /\ b.size = BatchSize(b.target)
             /\ b.ids = [n \in 1 .. b.size |-> buffer_angkat[n].id]
             /\ buffer_angkat' =
                  SubSeq(buffer_angkat, b.size + 1, Len(buffer_angkat))
             /\ pangkat'[b.agent].batch = SubSeq(buffer_angkat, 1, b.size)

\* C20: with several pickup agents polling the shared buffer, the size of a
\* batch is computed and its items are removed from the front of the buffer
\* in one step, so every item is removed by exactly one agent: no item is
\* in two batches, none is lost, and when the run has returned the batch
\* sizes add up to TOTAL_OMPRENG.
C20_NoDoublePickup ==
    /\ [](EachTakenOnce /\ AllTaken)
    /\ [][runs' = runs => AtomicTake]_vars

\* two agents have each taken a batch from the same buffer at the same
\* instant, and the run has returned
C20_Witness ==
    /\ phase = "returned"
    /\ TOTAL_OMPRENG(cfg) >= 2
    /\ \E m, n \in 1 .. Len(batches) :
          /\ batches[m].agent # batches[n].agent
          /\ batches[m].at = batches[n].at
          /\ batches[m].buffered > batches[m].size

-----------------------------------------------------------------------------
(* C21 *)

\* the agents that carry a batch: resource requested or transport under way
InTransport == {a \in DOMAIN pangkat : pangkat[a].pc \in {"req", "svc"}}

\* the checkpoint class: one process and one Resource of capacity 1 per
\* staff member; no request of an agent ever stands in a put queue, and the
\* only user of a Resource is its own agent while it carries a batch
OwnResources ==
    (impl = "cepat" /\ phase \in {"running", "returned"}) =>
        /\ DOMAIN pangkat = 0 .. (cfg.STAFF_ANGKAT - 1)
        /\ DOMAIN angkat = DOMAIN pangkat
        /\ \A a \in DOMAIN pangkat :
              /\ angkat[a].capacity = 1
              /\ angkat[a].put_queue = <<>>
              /\ angkat[a].users =
                    IF a \in InTransport THEN <<(<<"angkat", a>>)>> ELSE <<>>
              /\ pangkat[a].pc = "req" =>
                    \E ev \in env.queue :
                       /\ ev.cb = <<"resume", "angkat", a>>
                       /\ ev.time = pangkat[a].waktu_mulai
        /\ Cardinality(InTransport) <= cfg.STAFF_ANGKAT

\* an agent that forms a batch holds none: it is not carrying one and has
\* handed over every item of its last one
OneBatchEach ==
    (impl = "cepat" /\ Len(batches') = Len(batches) + 1) =>
        LET a == batches'[Len(batches')].agent
        IN  /\ a \notin InTransport
            /\ pangkat[a].pc = "put" => pangkat[a].k = Len(pangkat[a].batch)

\* C21: in the checkpoint class with STAFF_ANGKAT = N, N agents run, each
\* with its own Resource of capacity 1; an agent carries at most one batch
\* at a time, the request of its own Resource never waits, and at most N
\* batches are in transport at once.
C21_OwnResource ==
    /\ []OwnResources
    /\ [][runs' = runs => OneBatchEach]_vars

\* with two agents, two batches are in transport at once
C21_Witness ==
    /\ impl = "cepat"
    /\ phase = "running"
    /\ cfg.STAFF_ANGKAT >= 2
    /\ Cardinality(InTransport) = cfg.STAFF_ANGKAT
    /\ \A a \in DOMAIN pangkat : pangkat[a].pc = "svc"

-----------------------------------------------------------------------------
(* C22 *)

\* the completion time of item j, -1 while it has none
CompletedAt(j) ==
    IF \E n \in 1 .. Len(Records) : Records[n].id = j
    THEN Records[CHOOSE n \in 1 .. Len(Records) : Records[n].id = j].waktu_selesai
    ELSE -1

\* item j has been handed to the final stage: env.process(proses_nasi(j))
HandedOver(j) == pnasi[j].pc # "new"

\* item j has arrived at the final stage: proses_nasi(j) has started
AtNasi(j) == pnasi[j].pc \notin {"new", "init"}

\* the times of every item of every batch formed so far are in stage order
StageOrder ==
    \A p \in Taken :
       LET b == batches[p[1]]
           j == b.ids[p[2]]
       IN  /\ b.masuk[p[2]] <= b.at
           /\ pnasi[j].ended # -1 => b.at <= pnasi[j].ended
           /\ HandedOver(j) => pnasi[j].ended # -1
           /\ AtNasi(j) => pnasi[j].ended <= pnasi[j].waktu_masuk
           /\ CompletedAt(j) # -1 =>
                 AtNasi(j) /\ pnasi[j].waktu_masuk <= CompletedAt(j)

\* an item enters the buffer in the step its entry service ends, with the
\* time of that step
BufferedAtServiceEnd ==
    \A j \in DOMAIN plauk :
       (plauk[j].pc = "svc" /\ plauk'[j].pc = "done") =>
          buffer_angkat' =
             Append(buffer_angkat, [id |-> j, waktu_masuk |-> env'.now])

\* an item is handed to the final stage by the agent that carried it, after
\* the transport has ended and the agent has released its resource
HandedAfterRelease ==
    \A j \in DOMAIN pnasi :
       (~HandedOver(j) /\ pnasi'[j].pc # "new") =>
          \E a \in DOMAIN pangkat :
             /\ pangkat[a].pc = "put"
             /\ pangkat[a].batch[pangkat[a].k].id = j
             /\ <<"angkat", a>> \notin Members(angkat[ResIdx(a)].users)
             /\ pnasi[j].ended # -1
             /\ pnasi[j].ended <= env'.now

\* when the run has returned every item of every batch has been handed over
AllHandedOver ==
    phase = "returned" => \A j \in InBatches : HandedOver(j)

\* C22: for every item, entry-service end = time it is buffered <= time its
\* batch is formed <= time the transport of its batch ends <= time it
\* arrives at the final stage <= its completion time; no item is handed to
\* the final stage before the transport of its batch has ended and the
\* agent's resource is released, and every item of a formed batch is handed
\* to the final stage.
C22_StageOrder ==
    /\ [](StageOrder /\ AllHandedOver)
    /\ [][runs' = runs => BufferedAtServiceEnd /\ HandedAfterRelease]_vars

\* a run has returned in which an item waited in the buffer, was carried,
\* and waited at the final stage
C22_Witness ==
    /\ phase = "returned"
    /\ \E p \in Taken :
          LET b == batches[p[1]]
              j == b.ids[p[2]]
          IN  /\ 0 < b.masuk[p[2]]
              /\ b.masuk[p[2]] < b.at
              /\ b.at < pnasi[j].ended
              /\ pnasi[j].ended <= pnasi[j].waktu_masuk
              /\ pnasi[j].waktu_masuk + pnasi[j].nasi_time < CompletedAt(j)

-----------------------------------------------------------------------------
(* C23 *)

\* the items whose service at a stage has ended
LaukEnded == {j \in DOMAIN plauk : plauk[j].pc = "done"}
NasiEnded == {j \in DOMAIN pnasi : pnasi[j].pc = "done"}

\* one wait and one service time per item whose service has ended, no
\* wait negative, no unit granted before the arrival
WaitsCounted ==
    /\ Len(statistics.waktu_tunggu_lauk) = Cardinality(LaukEnded)
    /\ Len(statistics.waktu_layanan_lauk) = Cardinality(LaukEnded)
    /\ Len(statistics.waktu_tunggu_nasi) = Cardinality(NasiEnded)
    /\ Len(statistics.waktu_layanan_nasi) = Cardinality(NasiEnded)
    /\ \A n \in 1 .. Len(statistics.waktu_tunggu_lauk) :
          statistics.waktu_tunggu_lauk[n] >= 0
    /\ \A n \in 1 .. Len(statistics.waktu_tunggu_nasi) :
          statistics.waktu_tunggu_nasi[n] >= 0
    /\ \A j \in DOMAIN plauk :
          plauk[j].granted # -1 => plauk[j].granted >= plauk[j].waktu_datang
    /\ \A j \in DOMAIN pnasi :
          pnasi[j].granted # -1 => pnasi[j].granted >= pnasi[j].waktu_masuk

\* the step in which the service of item j ends records its wait, grant
\* time minus arrival time, and its service time; no other step records any
WaitsRecorded ==
    /\ \A j \in DOMAIN plauk :
          (plauk[j].pc = "svc" /\ plauk'[j].pc = "done") =>
             /\ statistics'.waktu_tunggu_lauk =
                   Append(statistics.waktu_tunggu_lauk,
                          plauk[j].granted - plauk[j].waktu_datang)
             /\ statistics'.waktu_layanan_lauk =
                   Append(statistics.waktu_layanan_lauk, plauk[j].lauk_time)
    /\ \A j \in DOMAIN pnasi :
          (pnasi[j].pc = "svc" /\ pnasi'[j].pc = "done") =>
             /\ statistics'.waktu_tunggu_nasi =
                   Append(statistics.waktu_tunggu_nasi,
                          pnasi[j].granted - pnasi[j].waktu_masuk)
             /\ statistics'.waktu_layanan_nasi =
                   Append(statistics.waktu_layanan_nasi, pnasi[j].nasi_time)
    /\ (\A j \in DOMAIN plauk : plauk'[j].pc = "done" => plauk[j].pc = "done")
          => /\ statistics'.waktu_tunggu_lauk = statistics.waktu_tunggu_lauk
             /\ statistics'.waktu_layanan_lauk = statistics.waktu_layanan_lauk
    /\ (\A j \in DOMAIN pnasi : pnasi'[j].pc = "done" => pnasi[j].pc = "done")
          => /\ statistics'.waktu_tunggu_nasi = statistics.waktu_tunggu_nasi
             /\ statistics'.waktu_layanan_nasi = statistics.waktu_layanan_nasi

\* an item that found a unit free when it arrived has waited 0
NoWaitIfFreeAtArrival ==
    /\ \A j \in DOMAIN plauk :
          (plauk[j].granted # -1 /\ plauk[j].free)
          => plauk[j].granted = plauk[j].waktu_datang
    /\ \A j \in DOMAIN pnasi :
          (pnasi[j].granted # -1 /\ pnasi[j].free)
          => pnasi[j].granted = pnasi[j].waktu_masuk

\* an item that requests its unit while a unit is free and no request is
\* waiting is granted in that step, at its arrival time
NoWaitIfFreeAtRequest ==
    /\ \A j \in DOMAIN plauk :
          (/\ plauk[j].pc = "put" /\ plauk'[j].pc = "req"
           /\ Len(lauk.users) < lauk.capacity /\ lauk.put_queue = <<>>)
          => plauk'[j].granted = plauk[j].waktu_datang
    /\ \A j \in DOMAIN pnasi :
          (/\ pnasi[j].pc = "init" /\ pnasi'[j].pc = "req"
           /\ Len(nasi.users) < nasi.capacity /\ nasi.put_queue = <<>>)
          => pnasi'[j].granted = pnasi'[j].waktu_masuk

\* C23 as stated: at the entry stage and the final stage the wait recorded
\* for an item is grant time minus arrival time, is never negative and is 0
\* whenever a unit was free at arrival; one wait and one service time are
\* recorded per item per stage.
C23_Waits_Stated ==
    /\ [](WaitsCounted /\ NoWaitIfFreeAtArrival)
    /\ [][runs' = runs => WaitsRecorded]_vars

\* C23 amended: as stated, but the wait is 0 whenever, at the item's request
\* of a unit, a unit is free and no earlier request is waiting.
C23_Waits ==
    /\ []WaitsCounted
    /\ [][runs' = runs => WaitsRecorded /\ NoWaitIfFreeAtRequest]_vars

\* both stages have recorded waits, some 0 and some positive
C23_Witness ==
    /\ phase = "returned"
    /\ \E n \in 1 .. Len(statistics.waktu_tunggu_lauk) :
          statistics.waktu_tunggu_lauk[n] > 0
    /\ \E n \in 1 .. Len(statistics.waktu_tunggu_lauk) :
          statistics.waktu_tunggu_lauk[n] = 0
    /\ \E n \in 1 .. Len(statistics.waktu_tunggu_nasi) :
          statistics.waktu_tunggu_nasi[n] > 0
    /\ \E n \in 1 .. Len(statistics.waktu_tunggu_nasi) :
          statistics.waktu_tunggu_nasi[n] = 0

-----------------------------------------------------------------------------
(* analyze_results (piket.py) and analisis (checkpoint) *)

\* the quotient x / d and the product q * k, kept as exact fractions
Over(x, d) == [num |-> x, den |-> d]
Scale(q, k) == [num |-> q.num * k, den |-> q.den]

\* df['waktu_selesai'].max()
RECURSIVE MaxSelesai(_)
MaxSelesai(recs) ==
    IF Len(recs) = 1 THEN recs[1].waktu_selesai
    ELSE LET m == MaxSelesai(Tail(recs))
         IN  IF recs[1].waktu_selesai >= m THEN recs[1].waktu_selesai ELSE m

\* mutant of utilisasi: the staff count is left out
utilisasi_NoStaff(total, total_time, staff) ==
    Scale(Over(total, total_time), 100)

\* (total / (total_time * STAFF)) * 100
utilisasi(total, total_time, staff) ==
    Scale(Over(total, total_time * staff), 100)

\* the value of a utilisation key when total_time is not positive: 0 in
\* piket.py, no such key in the checkpoint
NoUtilisasi == IF impl = "piket" THEN Over(0, 1) ELSE "missing"

\* the checkpoint divides by the makespan for its throughput, whatever
\* the makespan is
ReportRaises ==
    impl = "cepat" /\ Records # <<>> /\ MaxSelesai(Records) = 0

\* the results dictionary; "None" when there is no completion record
analyze_results ==
    IF Records = <<>> THEN "None"
    ELSE IF ReportRaises THEN "ZeroDivisionError"
    ELSE LET total_time == MaxSelesai(Records)
         IN  [total_ompreng |-> Len(Records),
              throughput_per_menit |->
                 IF impl = "cepat" THEN Over(TOTAL_OMPRENG(cfg), total_time)
                 ELSE "missing",
              waktu_selesai_terakhir |-> total_time,
              total_batch |-> Len(statistics.batch_sizes),
              utilisasi_lauk |->
                 IF total_time > 0
                 THEN utilisasi(SumSeq(statistics.waktu_layanan_lauk),
                                total_time, cfg.STAFF_LAUK)
                 ELSE NoUtilisasi,
              utilisasi_angkat |->
                 IF total_time > 0
                 THEN utilisasi(SumSeq(statistics.waktu_layanan_angkat),
                                total_time, cfg.STAFF_ANGKAT)
                 ELSE NoUtilisasi,
              utilisasi_nasi |->
                 IF total_time > 0
                 THEN utilisasi(SumSeq(statistics.waktu_layanan_nasi),
                                total_time, cfg.STAFF_NASI)
                 ELSE NoUtilisasi]

-----------------------------------------------------------------------------
(* C24 *)

\* the largest completion time of the records
Makespan ==
    CHOOSE t \in {Records[n].waktu_selesai : n \in 1 .. Len(Records)} :
        \A n \in 1 .. Len(Records) : Records[n].waktu_selesai <= t

\* the fraction u is a finite non-negative number equal to
\* sum / (makespan * staff) * 100
IsUtilisation(u, sum, staff) ==
    /\ u.den > 0
    /\ u.num >= 0
    /\ u.num * (Makespan * staff) = 100 * sum * u.den

\* C24: for every stage with a staff count >= 1 and a makespan > 0 the
\* reported utilisation equals sum(service times) / (makespan x staff
\* count) x 100, with makespan the largest completion time, and is a
\* finite non-negative number.
C24_Utilisation ==
    (phase = "returned" /\ Records # <<>> /\ Makespan > 0) =>
        /\ cfg.STAFF_LAUK >= 1 =>
              IsUtilisation(analyze_results.utilisasi_lauk,
                            SumSeq(statistics.waktu_layanan_lauk),
                            cfg.STAFF_LAUK)
        /\ cfg.STAFF_ANGKAT >= 1 =>
              IsUtilisation(analyze_results.utilisasi_angkat,
                            SumSeq(statistics.waktu_layanan_angkat),
                            cfg.STAFF_ANGKAT)
        /\ cfg.STAFF_NASI >= 1 =>
              IsUtilisation(analyze_results.utilisasi_nasi,
                            SumSeq(statistics.waktu_layanan_nasi),
                            cfg.STAFF_NASI)

\* a run with two staff at a stage has returned and its report has a
\* positive utilisation for every stage
C24_Witness ==
    /\ phase = "returned"
    /\ Records # <<>>
    /\ Makespan > 0
    /\ cfg.STAFF_LAUK >= 2
    /\ cfg.STAFF_NASI >= 2
    /\ analyze_results.utilisasi_lauk.num > 0
    /\ analyze_results.utilisasi_angkat.num > 0
    /\ analyze_results.utilisasi_nasi.num > 0

-----------------------------------------------------------------------------
(* C25 *)

\* the fraction u is at most 100
AtMost100(u) == u.den > 0 /\ u.num <= 100 * u.den

\* C25: after a completed run, for every stage the sum of the recorded
\* service times is at most makespan x staff count, so that each reported
\* utilisation is at most 100.
C25_AtMost100 ==
    (phase = "returned" /\ Records # <<>>) =>
        /\ SumSeq(statistics.waktu_layanan_lauk) <= Makespan * cfg.STAFF_LAUK
        /\ SumSeq(statistics.waktu_layanan_angkat) <= Makespan * cfg.STAFF_ANGKAT
        /\ SumSeq(statistics.waktu_layanan_nasi) <= Makespan * cfg.STAFF_NASI
        /\ Makespan > 0 =>
              /\ AtMost100(analyze_results.utilisasi_lauk)
              /\ AtMost100(analyze_results.utilisasi_angkat)
              /\ AtMost100(analyze_results.utilisasi_nasi)

\* a run has returned in which a stage with two staff was busy for more
\* than one makespan in all
C25_Witness ==
    /\ phase = "returned"
    /\ Records # <<>>
    /\ cfg.STAFF_LAUK = 2
    /\ SumSeq(statistics.waktu_layanan_lauk) > Makespan
    /\ analyze_results.utilisasi_lauk.num > 50 * analyze_results.utilisasi_lauk.den

-----------------------------------------------------------------------------
(* C26 *)

\* piket.py: one pickup process and one Resource of capacity STAFF_ANGKAT,
\* of which at most one unit is in use and for which no request ever waits
OneTransporter ==
    (impl = "piket" /\ phase \in {"running", "returned"}) =>
        /\ DOMAIN pangkat = {0}
        /\ DOMAIN angkat = {0}
        /\ angkat[0].capacity = cfg.STAFF_ANGKAT
        /\ Len(angkat[0].users) <= 1
        /\ angkat[0].put_queue = <<>>
        /\ angkat[0].users =
              IF 0 \in InTransport THEN <<(<<"angkat", 0>>)>> ELSE <<>>
        /\ pangkat[0].pc = "req" =>
              \E ev \in env.queue :
                 /\ ev.cb = <<"resume", "angkat", 0>>
                 /\ ev.time = pangkat[0].waktu_mulai
        /\ Cardinality(InTransport) <= 1

\* C26: in piket.py run_simulation starts one proses_angkat process
\* whatever STAFF_ANGKAT is, so the angkat resource never has more than one
\* unit in use, its request is always granted without waiting, and at most
\* one batch is in transport in any reachable state.
C26_SingleTransporter == OneTransporter

\* with STAFF_ANGKAT = 2 in piket.py a batch is in transport on one unit
\* while four items wait in the buffer
C26_Witness ==
    /\ impl = "piket"
    /\ phase = "running"
    /\ cfg.STAFF_ANGKAT >= 2
    /\ pangkat[0].pc = "svc"
    /\ Len(angkat[0].users) = 1
    /\ Len(buffer_angkat) >= MinAcceptable

-----------------------------------------------------------------------------
(* C27 *)

\* the places of the items
AtEntry == {j \in DOMAIN plauk : plauk[j].pc # "done"}
InBatch == {j \in InBatches : ~HandedOver(j)}
AtFinal == {j \in DOMAIN pnasi : pnasi[j].pc \in {"init", "req", "svc"}}
Completed == {Records[n].id : n \in 1 .. Len(Records)}

\* the number of places item j is in
PlacesOf(j) ==
    Cardinality({q \in 1 .. 5 :
                    \/ q = 1 /\ j \in AtEntry
                    \/ q = 2 /\ j \in Buffered
                    \/ q = 3 /\ j \in InBatch
                    \/ q = 4 /\ j \in AtFinal
                    \/ q = 5 /\ j \in Completed})

\* C27: in every reachable state of a run each of the TOTAL_OMPRENG items
\* is in exactly one place (entry stage, buffer, formed batch not yet
\* handed over, final stage, completed); hence completed + len(buffer) <=
\* TOTAL_OMPRENG, with equality exactly when no item is in the entry stage,
\* in transport or in the final stage.
C27_ItemPlaces ==
    phase \in {"running", "returned", "crashed"} =>
        /\ DOMAIN plauk = Items(cfg)
        /\ DOMAIN pnasi = Items(cfg)
        /\ \A j \in Items(cfg) : PlacesOf(j) = 1
        /\ ompreng_diproses = Cardinality(Completed)
        /\ Len(buffer_angkat) = Cardinality(Buffered)
        /\ ompreng_diproses + Len(buffer_angkat) <= TOTAL_OMPRENG(cfg)
        /\ ompreng_diproses + Len(buffer_angkat) = TOTAL_OMPRENG(cfg)
              <=> (AtEntry = {} /\ InBatch = {} /\ AtFinal = {})

\* items are in all five places at once
C27_Witness ==
    /\ phase = "running"
    /\ AtEntry # {}
    /\ Buffered # {}
    /\ InBatch # {}
    /\ AtFinal # {}
    /\ Completed # {}

-----------------------------------------------------------------------------
(* C28 *)

\* every batch of proses_angkat formed while an item was pending has its
\* sampled target size
FullWhilePending ==
    impl = "piket" =>
        \A n \in 1 .. Len(batches) :
           batches[n].pending => batches[n].size = batches[n].target

\* a step of proses_angkat that forms a batch while an item is in the entry
\* stage, in transport or in the final stage forms a full one
NoPartialBatch ==
    (/\ impl = "piket"
     /\ Len(batches') = Len(batches) + 1
     /\ (AtEntry # {} \/ InBatch # {} \/ AtFinal # {}))
    => batches'[Len(batches')].size = batches'[Len(batches')].target

\* C28: every batch formed by proses_angkat of piket.py has exactly its
\* sampled target size unless, at formation, ompreng_diproses +
\* len(buffer_angkat) = ompreng_total; no partial batch is formed while an
\* item is still in the entry stage, in transport or in the final stage.
C28_FullBatches ==
    /\ []FullWhilePending
    /\ [][runs' = runs => NoPartialBatch]_vars

\* proses_angkat has formed a full batch while items were pending and a
\* partial one when none was
C28_Witness ==
    /\ impl = "piket"
    /\ \E m, n \in 1 .. Len(batches) :
          /\ batches[m].pending
          /\ batches[m].size = batches[m].target
          /\ ~batches[n].pending
          /\ 0 < batches[n].size
          /\ batches[n].size < batches[n].target

-----------------------------------------------------------------------------
(* C29 *)

\* no batch is formed before one poll tick has passed, and every completion
\* time is positive
AfterFirstTick ==
    /\ \A n \in 1 .. Len(batches) : batches[n].at >= Tick
    /\ \A n \in 1 .. Len(Records) : Records[n].waktu_selesai > 0

\* the report of a returned run is made without a division by zero
NoZeroDivision ==
    (phase = "returned" /\ Records # <<>>) =>
        /\ Makespan > 0
        /\ ~ReportRaises
        /\ analyze_results.utilisasi_lauk.den # 0
        /\ analyze_results.utilisasi_angkat.den # 0
        /\ analyze_results.utilisasi_nasi.den # 0
        /\ impl = "cepat" => analyze_results.throughput_per_menit.den # 0

\* C29: for TOTAL_OMPRENG >= 1 no batch is formed at virtual time 0: the
\* pickup agents run before any item is buffered and find the buffer empty,
\* so the first batch is formed no earlier than one poll tick; every
\* completion time and the makespan are positive, and throughput and
\* utilisation never divide by zero.
C29_PositiveMakespan ==
    TOTAL_OMPRENG(cfg) >= 1 => AfterFirstTick /\ NoZeroDivision

\* every service takes no time: the first batch is formed at the first
\* poll tick and the makespan is one tick
C29_Witness ==
    /\ phase = "returned"
    /\ cfg.LAUK_MAX = 0
    /\ Len(batches) >= 1
    /\ batches[1].at = Tick
    /\ batches[1].masuk[1] = 0
    /\ Records # <<>>
    /\ Makespan = Tick

-----------------------------------------------------------------------------
(* C30 *)

\* the time the current run started: its items arrive when it starts
RunStart == plauk[0].waktu_datang

\* the report of the run that has returned is about that run alone
ReportOfThisRun ==
    /\ ompreng_diproses = TOTAL_OMPRENG(cfg)
    /\ analyze_results.total_ompreng = TOTAL_OMPRENG(cfg)
    /\ analyze_results.total_batch = batch_count
    /\ analyze_results.waktu_selesai_terakhir = Makespan - RunStart

\* C30: run_simulation (jalankan) resets the completed counter, the buffer
\* and the batch counter, so a second call on the same model object again
\* completes exactly TOTAL_OMPRENG items and returns a report with
\* total_ompreng = TOTAL_OMPRENG, a batch count of that run only, and a
\* makespan measured from that run's start.
C30_Repeatable ==
    (phase = "returned" /\ ValidConfig(cfg)) => ReportOfThisRun

====
